---- MODULE Spec2Model ----
(***************************************************************************)
(* Contingency execution and compliance engine of the PSSE contingency     *)
(* study (src/Main.py, src/optimisation/psse.py,                           *)
(* src/optimisation/constants.py).                                         *)
(*                                                                         *)
(* The power-flow solver (psspy) is an external black box: every solve     *)
(* nondeterministically converges, does not converge, reports islanded     *)
(* buses or returns a fatal error code, and leaves a voltage profile in    *)
(* the solver that the snapshot tables read afterwards.                    *)
(*                                                                         *)
(* Voltages are integers in thousandths of a per-unit; voltage targets of  *)
(* the reactive compensation search are integers in units of 1e-8 pu so    *)
(* that v_step = (vmax_target - vmin_target) / max_iterations is exact.    *)
(***************************************************************************)
EXTENDS Integers, Sequences, FiniteSets, TLC

VARIABLES
    pc,                     \* position of the script / main() / test_contingency()
    err,                    \* exception that ended the network case, or "none"
    case_i,                 \* Main.py 281: position of the batch loop in selector
    adjust_reactive_comp,   \* Main.py: adjust_reactive_comp, one flag per network case
    adjust_reactive,        \* main(adjust_reactive=...)
    contingency_names,      \* keys of contingency_circuits_details, in processing order
    test_target_bus,        \* constants.ReactiveCompensationLimits.test_target_bus
    target_shunts,          \* constants.ReactiveCompensationLimits.target_shunts
    idx,                    \* position of the study loop in contingency_names (0 = not begun)
    sw,                     \* switching rows of the current contingency already attempted
    success,                \* local list `success` of setup_contingency
    busbars_to_ignore,      \* Contingency.busbars_to_ignore of the current contingency
    setup_correctly,        \* Contingency.setup_correctly of the current contingency
    convergent_v_step,      \* Contingency.convergent_v_step of the current contingency
    convergent_v_steady,    \* Contingency.convergent_v_steady of the current contingency
    applied,                \* solver: contingencies whose switching acts on the loaded network
    lf_state,               \* solver: "none" | "loaded" | "switched" | "conv" | "nonconv"
    bus_v,                  \* solver: voltage per bus left by the last solve
    df_voltage_step,        \* BusData.df_voltage_step   (column -> bus -> value)
    df_voltage_steady,      \* BusData.df_voltage_steady (column -> bus -> value)
    df_state,               \* BusData.df_state          (column -> bus -> value)
    df_status,              \* df_status of the element tables (table -> column -> solver state read)
    df_loading,             \* df_loading of the element tables (table -> column -> solver state read)
    convergent_load_flow,   \* locals of test_contingency
    islanded_buses,
    test_result,            \* value test_contingency returned for the current contingency
    iter_count,             \* locals of check_voltage_adjust_machines
    targets_log,
    within_limits,
    target_bus,
    target_voltage,
    target_q,
    phase_log,              \* solver calls of the current contingency (of the current search iteration)
    contingency_convergence, \* main(): message / convergence per processed contingency
    nominal_kv,             \* column NOMINAL of the bus snapshot (bus -> kV)
    df_limits,              \* columns LOWER_LIMIT / UPPER_LIMIT of df_voltage_steady (bus -> limits)
    workbook,               \* contingency workbook: name -> sheets that hold rows of the contingency
    circuit_switching,      \* main(): names of the contingencies that switch a circuit
    shunt_switching,        \* main(): names of the voltage control contingencies
    index_rows,             \* frame -> row labels its index holds besides the elements
    compliant_row,          \* frame -> cells of its row 'Compliant' (column -> flag)
    v_step_lbl_row,         \* cells of the row 'Voltage Step Limit' of df_voltage_step
    compliance,             \* main(): results of the check_compliance calls made so far
    contingency_compliance, \* main(): the combined summary (name -> column -> cell)
    data_set,               \* the snapshot table whose update() was called last
    ierr,                   \* error codes the solver returned to the read calls of that update()
    net,                    \* solver: status of the elements of the network (kind -> key -> status)
    switching,                 \* switching rows of the current contingency (kind, key, status)
    restore,                \* argument restore of the setup_contingency call made last
    commands                \* solver: switch commands received from change_state(restore_all=True)

vars == << pc, err, case_i, adjust_reactive_comp, adjust_reactive, contingency_names, test_target_bus, target_shunts,
           idx, sw, success, busbars_to_ignore, setup_correctly,
           convergent_v_step, convergent_v_steady, applied, lf_state, bus_v,
           df_voltage_step, df_voltage_steady, df_state, df_status,
           df_loading, convergent_load_flow, islanded_buses, test_result, iter_count,
           targets_log, within_limits, target_bus, target_voltage, target_q,
           phase_log, contingency_convergence,
           nominal_kv, df_limits, workbook, circuit_switching, shunt_switching,
           index_rows, compliant_row, v_step_lbl_row, compliance, contingency_compliance,
           data_set, ierr, net, switching, restore, commands >>

solverVars == << applied, lf_state, bus_v >>
tableVars  == << df_voltage_step, df_voltage_steady, df_state, df_status, df_loading >>
contVars   == << busbars_to_ignore, setup_correctly, convergent_v_step, convergent_v_steady >>
testVars   == << convergent_load_flow, islanded_buses, test_result >>
searchVars == << iter_count, targets_log, within_limits, target_bus, target_voltage, target_q >>
configVars == << case_i, adjust_reactive_comp, adjust_reactive, contingency_names,
                test_target_bus, target_shunts >>
complianceVars == << nominal_kv, df_limits, workbook, circuit_switching, shunt_switching,
                    index_rows, compliant_row, v_step_lbl_row, compliance,
                    contingency_compliance >>
updateVars == << data_set, ierr >>
switchVars == << net, switching, restore, commands >>

----------------------------------------------------------------------------
(* Bounds of the model *)

\* most switching rows a contingency of the input workbook has
MaxSwitch == 2

\* network cases of the batch (length of selector)
NumCases == 2

----------------------------------------------------------------------------
(* Program constants *)

\* constants.Contingency
bc == "BASE_CASE"
non_convergent == "Non-Convergent"
convergent == "Convergent"
non_convergent_vstep == "Non-Convergent Step Change"
non_convergent_vsteady == "Non-Convergent Steady State"
error == "ERROR"

\* constants.ReactiveCompensationLimits (voltage targets in 1e-8 pu, Mvar as is)
max_iterations == 100
vmax_target == 107894700
vmin_target == 94800000
v_step == (vmax_target - vmin_target) \div max_iterations
q_max == -1000
q_min == 0
q_step == -5

\* np.nan in a frame of numbers (every voltage is positive), in a frame of
\* states, and as a missing voltage limit
NaN == 0 - 1
NaNState == "nan"
NoLimit == << >>

\* constants.EirGridThresholds.steady_state_limits:
\* (nominal lower, nominal upper) -> (lower limit, upper limit), limits as <<numerator, denominator>>
steady_state_limits ==
    { [nominal_lower |-> 109, nominal_upper |-> 111, lower_limit |-> <<99, 110>>,  upper_limit |-> <<120, 110>>],
      [nominal_lower |-> 219, nominal_upper |-> 221, lower_limit |-> <<200, 220>>, upper_limit |-> <<240, 220>>],
      [nominal_lower |-> 250, nominal_upper |-> 276, lower_limit |-> <<250, 275>>, upper_limit |-> <<303, 275>>],
      [nominal_lower |-> 379, nominal_upper |-> 401, lower_limit |-> <<360, 380>>, upper_limit |-> <<410, 380>>] }

----------------------------------------------------------------------------
(* The network case and the inputs of one run of main() *)

\* busbars of the loaded SAV case
Buses == {1, 2}

\* nominal voltage (kV) of each busbar
nominal == (1 :> 220) @@ (2 :> 110)

\* voltages (thousandths of a pu) of the solved base case
BaseProfile == (1 :> 1000) @@ (2 :> 1000)

\* voltage profiles a solve may leave in the solver
LocalProfiles ==
    { (1 :> 1000) @@ (2 :> 1000),
      (1 :> 1100) @@ (2 :> 1000),
      (1 :> 1000) @@ (2 :> 890) }

\* for the search that targets the bus of the largest voltage: that bus may be
\* either bus
RemoteProfiles ==
    { (1 :> 1000) @@ (2 :> 1000),
      (1 :> 1100) @@ (2 :> 1000),
      (1 :> 1000) @@ (2 :> 1100) }

SolverProfiles == IF test_target_bus THEN RemoteProfiles ELSE LocalProfiles

\* sets of buses the solver may report as islanded
IslandSets == { {2} }

\* exclusion lists a contingency may carry (busbars_to_consider workbook)
IgnoreLists == { {}, {2} }

\* runs of the script: the contingency workbook (its sorted contingency names,
\* the same for every network case) and adjust_reactive_comp. A workbook of two
\* contingencies studied without compensation search, a workbook of one
\* contingency studied with compensation search for the first network case, a
\* workbook whose only contingency is named as the base case, an empty workbook.
\* adjust_reactive_comp of Main.py: one flag per network case of the batch
NoSearch == [i \in 1..NumCases |-> FALSE]
SearchFirstCase == [i \in 1..NumCases |-> i = 1]

StudyCases ==
    { [adjust_reactive_comp |-> NoSearch,        names |-> << "Outage-A", "Outage-B" >>],
      [adjust_reactive_comp |-> SearchFirstCase, names |-> << "Outage-A" >>],
      [adjust_reactive_comp |-> NoSearch,        names |-> << "BASE_CASE" >>],
      [adjust_reactive_comp |-> NoSearch,        names |-> << >>] }

AllNames == {"BASE_CASE", "Outage-A", "Outage-B"}

\* element snapshot tables with a status frame and with a loading frame
StatusTables == {"circuit", "tx2", "tx3", "tx3_wind", "fixed_shunt", "switched_shunt"}
LoadingTables == {"circuit", "tx2", "tx3_wind", "machine"}

\* tables setup_contingency updates (psse.py 1443-1446): status and loading frames
SetupStatusTables == {"circuit", "tx2", "tx3", "tx3_wind", "fixed_shunt", "switched_shunt"}
SetupLoadingTables == {"circuit", "tx2", "tx3_wind"}

----------------------------------------------------------------------------
(* Pure helpers *)

\* pandas: df[name] = column
SetCol(df, name, col) ==
    [n \in (DOMAIN df) \cup {name} |-> IF n = name THEN col ELSE df[n]]

\* a column holding the same scalar in every row (df[name] = np.nan)
Broadcast(val) == [b \in Buses |-> val]

\* v (thousandths of pu) <= limit, limit = <<numerator, denominator>>; False against NaN
LeqLimit(v, lim) == IF v = NaN \/ lim = NoLimit THEN FALSE ELSE v * lim[2] <= lim[1] * 1000
GeqLimit(v, lim) == IF v = NaN \/ lim = NoLimit THEN FALSE ELSE v * lim[2] >= lim[1] * 1000

\* the band rows with the test of the upper edge of the range left out
BandsOf_no_upper_edge(nom) == { r \in steady_state_limits : nom > r.nominal_lower }

\* BusData.add_voltage_limits: the band rows whose nominal range holds the bus
BandsOf(nom) == { r \in steady_state_limits : nom > r.nominal_lower /\ nom <= r.nominal_upper }
upper_limit(b) == IF BandsOf(nominal[b]) = {} THEN NoLimit
                  ELSE (CHOOSE r \in BandsOf(nominal[b]) : TRUE).upper_limit
lower_limit(b) == IF BandsOf(nominal[b]) = {} THEN NoLimit
                  ELSE (CHOOSE r \in BandsOf(nominal[b]) : TRUE).lower_limit

\* convergence_message that reports a failed step-change solve as a failure of
\* both solves
convergence_message_step_first(step, steady) ==
    IF ~step THEN non_convergent
    ELSE IF steady THEN convergent
    ELSE non_convergent_vsteady

\* convergence_message with the messages of the two mixed combinations exchanged
convergence_message_mixed(step, steady) ==
    IF ~step /\ ~steady THEN non_convergent
    ELSE IF steady /\ step THEN convergent
    ELSE IF steady /\ ~step THEN non_convergent_vsteady
    ELSE IF step /\ ~steady THEN non_convergent_vstep
    ELSE error

\* Contingency.convergence_message
convergence_message(step, steady) ==
    IF ~step /\ ~steady THEN non_convergent
    ELSE IF steady /\ step THEN convergent
    ELSE IF steady /\ ~step THEN non_convergent_vstep
    ELSE IF step /\ ~steady THEN non_convergent_vsteady
    ELSE error

\* Contingency.convergent
convergent_prop(step, steady) == IF step /\ steady THEN TRUE ELSE FALSE

\* name of the contingency being processed
cur == contingency_names[idx]

----------------------------------------------------------------------------
(* Initial state: before main() loads the case *)

\* no exception has been raised
NoError == [type |-> "none", msg |-> ""]

\* exceptions of the program
LoadError      == [type |-> "ValueError",  msg |-> "Unable to Load PSSE Case"]
IslandedBaseCase == [type |-> "ValueError", msg |-> "Check PSSE SAV Case - Islanded busbars"]
NonConvergentBaseCase == [type |-> "ValueError", msg |-> "Check PSSE SAV Case - Non-Convergent"]
EmptyWorkbook  == [type |-> "ValueError",  msg |-> "Empty Contingencies Workbook"]
BranchReadError == [type |-> "ValueError", msg |-> "Error importing data from PSSE SAV case"]
BusReadError   == [type |-> "SyntaxError", msg |-> "Error importing data from PSSE SAV case"]
ScriptError    == [type |-> "SyntaxError", msg |-> "SCRIPT error, invalid options value or API prerequisites not met"]
ConvertedError == [type |-> "IOError",     msg |-> "The generators are converted and therefore it is not possible to run loadflow"]
StillIslanded  == [type |-> "SyntaxError", msg |-> "Have managed to still have islanded busbars on second run so issue with script"]

\* exceptions run_load_flow raises
SolverErrors == {ScriptError, ConvertedError}
\* exceptions the update() of the snapshot tables raises
ReadErrors == {BranchReadError, BusReadError}

NoLocals ==
    /\ iter_count = 0
    /\ targets_log = << >>
    /\ within_limits = FALSE
    /\ target_bus = 0
    /\ target_voltage = vmax_target
    /\ target_q = q_min

\* main() has been called and has done nothing yet
MainStart ==
    /\ pc = "start"
    /\ err = NoError
    /\ idx = 0
    /\ sw = 0
    /\ success = << >>
    /\ busbars_to_ignore = {}
    /\ setup_correctly = FALSE
    /\ convergent_v_step = FALSE
    /\ convergent_v_steady = FALSE
    /\ df_voltage_step = << >>
    /\ df_voltage_steady = << >>
    /\ df_state = << >>
    /\ df_status = [t \in StatusTables |-> << >>]
    /\ df_loading = [t \in LoadingTables |-> << >>]
    /\ convergent_load_flow = FALSE
    /\ islanded_buses = {}
    /\ test_result = "none"
    /\ NoLocals
    /\ phase_log = << >>
    /\ contingency_convergence = << >>

\* frames whose index takes the rows 'Compliant' / 'Voltage Step Limit', named
\* as their column of the summary is (constants.Excel)
Frames == {"V Step", "V Steady", "Circuit Loading", "2 Winding Loading", "3 Winding Loading"}

\* the elements of the network are not followed one by one (in the studies
\* below that do not look at single switching rows)
SwitchStart ==
    /\ net = << >>
    /\ switching = << >>
    /\ restore = FALSE
    /\ commands = << >>

\* the compliance stage has not begun (and does not begin in the study above)
ComplianceStart ==
    /\ df_limits = << >>
    /\ circuit_switching = << >>
    /\ shunt_switching = << >>
    /\ index_rows = [f \in Frames |-> {}]
    /\ compliant_row = [f \in Frames |-> << >>]
    /\ v_step_lbl_row = << >>
    /\ compliance = << >>
    /\ contingency_compliance = << >>

Init ==
    /\ case_i = 1
    /\ \E study \in StudyCases :
          /\ adjust_reactive_comp = study.adjust_reactive_comp
          /\ adjust_reactive = study.adjust_reactive_comp[1]
          /\ contingency_names = study.names
    /\ test_target_bus = FALSE
    /\ target_shunts = FALSE
    /\ applied = {}
    /\ lf_state = "none"
    /\ bus_v = BaseProfile
    /\ MainStart
    /\ nominal_kv = nominal
    /\ workbook = << >>
    /\ ComplianceStart
    /\ data_set = "none"
    /\ ierr = << >>
    /\ SwitchStart

----------------------------------------------------------------------------
(* Exceptions: the locals of the function that raised are gone, the tables,
   the solver and the results recorded so far stay as they are *)

Raise(kind) ==
    /\ pc' = "aborted"
    /\ err' = kind
    /\ sw' = 0
    /\ success' = << >>
    /\ convergent_load_flow' = FALSE
    /\ islanded_buses' = {}
    /\ test_result' = "none"
    /\ iter_count' = 0
    /\ targets_log' = << >>
    /\ within_limits' = FALSE
    /\ target_bus' = 0
    /\ target_voltage' = vmax_target
    /\ target_q' = q_min
    /\ phase_log' = << >>

\* an exception raised before the solver or a table was touched by the raising call
RaiseOnly(kind) ==
    /\ Raise(kind)
    /\ UNCHANGED << configVars, complianceVars, updateVars, switchVars, idx, contVars, solverVars, tableVars, contingency_convergence >>

----------------------------------------------------------------------------
(* The solver *)

\* a reload that leaves the switching of the contingency in the network
load_data_case_keeps_switching ==
    /\ applied' = applied
    /\ lf_state' = "loaded"
    /\ bus_v' = BaseProfile

\* PsseControl.load_data_case: psspy.case(sfile) replaces the whole network state
load_data_case ==
    /\ applied' = {}
    /\ lf_state' = "loaded"
    /\ bus_v' = BaseProfile

\* entry of phase_log for run_load_flow(flat_start, lock_taps)
SolveCall(flat_start, lock_taps) ==
    IF lock_taps THEN (IF flat_start THEN "fdns_locked" ELSE "fnsl_locked")
    ELSE (IF flat_start THEN "fdns_free" ELSE "fnsl_free")

\* PsseControl.run_load_flow: outcome "conv" is (True, empty), "nonconv" is
\* (False, empty), "island" is (False, islanded buses); the solver keeps the
\* voltages v of the attempt
run_load_flow(flat_start, lock_taps, outcome, v) ==
    /\ bus_v' = v
    /\ lf_state' = IF outcome = "conv" THEN "conv" ELSE "nonconv"
    /\ applied' = applied

\* first element of the pair run_load_flow returns
Converged(outcome) == outcome = "conv"

----------------------------------------------------------------------------
(* main(): from the case load to the study loop *)

\* Main.py 117-118
LoadCase ==
    /\ pc = "start"
    /\ \/ /\ load_data_case
          /\ pc' = "init_lf"
          /\ UNCHANGED << err, configVars, complianceVars, updateVars, switchVars, idx, sw, success, contVars, tableVars,
                          testVars, searchVars, phase_log,
                          contingency_convergence >>
       \/ RaiseOnly(LoadError)

\* a check of the base case that looks at the islanded buses only
initial_load_flow_check_islands_only(load_flow_success, islanded_busbars) ==
    IF islanded_busbars # {} THEN IslandedBaseCase
    ELSE NoError

\* Main.py 124-140: the exception raised after the initial load flow, if any
initial_load_flow_check(load_flow_success, islanded_busbars) ==
    IF ~load_flow_success \/ islanded_busbars # {}
    THEN IF islanded_busbars # {} THEN IslandedBaseCase ELSE NonConvergentBaseCase
    ELSE NoError

\* islanded buses run_load_flow can return with the outcome (psse.py 1762-1765:
\* the frame of get_islanded_busbars, which may be empty)
IslandedOf(outcome) == IF outcome = "island" THEN IslandSets \cup { {} } ELSE { {} }

\* Main.py 123-140: the initial load flow of the loaded case and the check of
\* its result; a converged solve leaves the voltages of the base case
InitialLoadFlow ==
    /\ pc = "init_lf"
    /\ \/ \E outcome \in {"conv", "nonconv", "island"}, v \in SolverProfiles :
          \E islanded_busbars \in IslandedOf(outcome) :
             /\ run_load_flow(FALSE, FALSE, outcome, IF Converged(outcome) THEN BaseProfile ELSE v)
             /\ IF initial_load_flow_check(Converged(outcome), islanded_busbars) = NoError
                THEN /\ pc' = "create_data"
                     /\ UNCHANGED << err, configVars, complianceVars, updateVars, switchVars, idx, sw, success,
                                     contVars, tableVars, testVars, searchVars, phase_log,
                                     contingency_convergence >>
                ELSE /\ Raise(initial_load_flow_check(Converged(outcome), islanded_busbars))
                     /\ UNCHANGED << configVars, complianceVars, updateVars, switchVars, idx, contVars,
                                     tableVars, contingency_convergence >>
       \/ \E kind \in SolverErrors :
             /\ Raise(kind)
             /\ lf_state' = "nonconv"
             /\ \E v \in SolverProfiles : bus_v' = v
             /\ UNCHANGED << configVars, complianceVars, updateVars, switchVars, idx, contVars, applied, tableVars,
                             contingency_convergence >>

\* Main.py 144-151: every snapshot table is built by update() without a name,
\* which sets the base-case column
CreateData ==
    /\ pc = "create_data"
    /\ \/ /\ df_state' = (bc :> Broadcast(lf_state))
          /\ df_voltage_steady' = (bc :> bus_v)
          /\ df_voltage_step' = (bc :> bus_v)
          /\ df_status' = [t \in StatusTables |-> (bc :> lf_state)]
          /\ df_loading' = [t \in LoadingTables |-> (bc :> lf_state)]
          /\ pc' = "import"
          /\ UNCHANGED << err, configVars, complianceVars, updateVars, switchVars, idx, sw, success, contVars, solverVars,
                          testVars, searchVars, phase_log,
                          contingency_convergence >>
       \/ \E kind \in ReadErrors : RaiseOnly(kind)

\* Main.py 153-187: the contingencies are imported and the base-case row of the
\* convergence table is written
ImportContingencies ==
    /\ pc = "import"
    /\ IF contingency_names # << >>
       THEN /\ contingency_convergence' = (bc :> [message |-> convergent, convergence |-> TRUE])
            /\ pc' = "loop"
            /\ UNCHANGED << err, configVars, complianceVars, updateVars, switchVars, idx, sw, success, contVars, solverVars, tableVars,
                            testVars, searchVars, phase_log >>
       ELSE RaiseOnly(EmptyWorkbook)    \* file_handling.py 109-113

\* Main.py 190: the loop takes the next Contingency object, as its constructor left it
NextContingency ==
    /\ pc = "loop"
    /\ idx < Len(contingency_names)
    /\ idx' = idx + 1
    /\ \E ignore \in IgnoreLists : busbars_to_ignore' = ignore
    /\ setup_correctly' = FALSE
    /\ convergent_v_step' = FALSE
    /\ convergent_v_steady' = FALSE
    /\ sw' = 0
    /\ success' = << >>
    /\ phase_log' = << >>
    /\ test_result' = "none"
    /\ pc' = "setup"
    /\ UNCHANGED << err, configVars, complianceVars, updateVars, switchVars, solverVars, tableVars, convergent_load_flow,
                    islanded_buses, searchVars, contingency_convergence >>

----------------------------------------------------------------------------
(* Contingency.setup_contingency *)

\* psse.py 1407-1413: a contingency named as the base case is not switched and
\* takes no column from the solver
SetupBaseCase ==
    /\ pc = "setup"
    /\ cur = bc
    /\ setup_correctly' = TRUE
    /\ pc' = "test"
    /\ UNCHANGED << err, configVars, complianceVars, updateVars, switchVars, idx, sw, success, busbars_to_ignore, convergent_v_step,
                    convergent_v_steady, solverVars, tableVars, testVars, searchVars,
                    phase_log, contingency_convergence >>

\* psse.py 1416-1438: one row of the contingency is switched; change_state
\* returns whether the solver accepted it
SwitchElement ==
    /\ pc = "setup"
    /\ cur # bc
    /\ sw < MaxSwitch
    /\ \E ok \in BOOLEAN :
          /\ success' = Append(success, ok)
          /\ applied' = IF ok THEN applied \cup {cur} ELSE applied
          /\ lf_state' = IF ok THEN "switched" ELSE lf_state
    /\ sw' = sw + 1
    /\ UNCHANGED << pc, err, configVars, complianceVars, updateVars, switchVars, idx, contVars, bus_v, tableVars,
                    testVars, searchVars, phase_log, contingency_convergence >>

\* any(success) in place of all(success)
AnyTrue(list) == \E i \in 1..Len(list) : list[i]

\* all(success)
AllTrue(list) == \A i \in 1..Len(list) : list[i]

\* psse.py 1440-1455 with restore=False: every table takes a column of this
\* contingency from the solver, then setup_correctly = all(success)
SetupUpdate ==
    /\ pc = "setup"
    /\ cur # bc
    /\ sw >= 1
    /\ \/ /\ df_status' = [t \in StatusTables |->
                              IF t \in SetupStatusTables
                              THEN SetCol(df_status[t], cur, lf_state) ELSE df_status[t]]
          /\ df_loading' = [t \in LoadingTables |->
                              IF t \in SetupLoadingTables
                              THEN SetCol(df_loading[t], cur, lf_state) ELSE df_loading[t]]
          /\ df_state' = SetCol(df_state, cur, Broadcast(lf_state))
          /\ setup_correctly' = AllTrue(success)
          /\ sw' = 0
          /\ success' = << >>
          /\ pc' = "test"
          /\ UNCHANGED << err, configVars, complianceVars, updateVars, switchVars, idx, busbars_to_ignore, convergent_v_step,
                          convergent_v_steady, solverVars, df_voltage_step,
                          df_voltage_steady, testVars, searchVars,
                          phase_log, contingency_convergence >>
       \/ \E kind \in ReadErrors : RaiseOnly(kind)

----------------------------------------------------------------------------
(* BusData *)

\* update_voltages that reads the solver whatever non_convergence says
update_voltages_reads_anyway(df, cont_name, non_convergence, pu) ==
    SetCol(df, cont_name, pu)

\* BusData.update_voltages: the column written under cont_name, np.nan in every
\* row if non_convergence, else pu, the voltages read from the solver
update_voltages(df, cont_name, non_convergence, pu) ==
    SetCol(df, cont_name, IF non_convergence THEN Broadcast(NaN) ELSE pu)

\* BusData.add_islanded_busbars: df_state[cont_name] = buses[state]; the series
\* holds the islanded buses only (with the state they had before psspy.island),
\* pandas aligns it on the bus index and leaves NaN in every other row
add_islanded_busbars(df, buses, cont_name) ==
    SetCol(df, cont_name, [b \in Buses |-> IF b \in buses THEN "in_service" ELSE NaNState])

\* BusData.check_within_limits, psse.py 1154-1157: rows of df_subset
SubsetBuses(ignore) == Buses \ ignore

\* psse.py 1159
WithinLimits(col, ignore) ==
    \A b \in SubsetBuses(ignore) : LeqLimit(col[b], upper_limit(b))

\* psse.py 1161: df_subset.idxmax(), the first row holding the largest voltage
IdxMax(col, ignore) ==
    CHOOSE b \in SubsetBuses(ignore) :
        /\ \A c \in SubsetBuses(ignore) : col[c] <= col[b]
        /\ \A c \in SubsetBuses(ignore) : col[c] = col[b] => b <= c

----------------------------------------------------------------------------
(* Contingency.test_contingency *)

\* a contingency that is not set up returns without writing its columns
TestNotSetup_no_columns ==
    /\ pc = "test"
    /\ ~setup_correctly
    /\ test_result' = "False"
    /\ pc' = "reload"
    /\ UNCHANGED << err, configVars, complianceVars, updateVars, switchVars, idx, sw, success, contVars, solverVars, tableVars,
                    convergent_load_flow, islanded_buses,
                    searchVars, phase_log, contingency_convergence >>

\* psse.py 1471-1478: a contingency that is not set up is not solved
TestNotSetup ==
    /\ pc = "test"
    /\ ~setup_correctly
    /\ df_voltage_steady' = update_voltages(df_voltage_steady, cur, TRUE, bus_v)
    /\ df_voltage_step' = update_voltages(df_voltage_step, cur, TRUE, bus_v)
    /\ test_result' = "False"
    /\ pc' = "reload"
    /\ UNCHANGED << err, configVars, complianceVars, updateVars, switchVars, idx, sw, success, contVars, solverVars, df_state,
                    df_status, df_loading, convergent_load_flow, islanded_buses,
                    searchVars, phase_log, contingency_convergence >>

\* psse.py 1488-1493: first solve with locked taps; islanded buses are written
\* to the bus states and the solve is repeated
LockedSolve ==
    /\ pc = "test"
    /\ setup_correctly
    /\ \E v \in SolverProfiles :
       \/ \E outcome \in {"conv", "nonconv"} :
             /\ run_load_flow(FALSE, TRUE, outcome, v)
             /\ phase_log' = Append(phase_log, SolveCall(FALSE, TRUE))
             /\ convergent_load_flow' = Converged(outcome)
             /\ islanded_buses' = {}
             /\ test_result' = test_result
             /\ pc' = "record_step"
             /\ UNCHANGED << err, configVars, complianceVars, updateVars, switchVars, idx, sw, success, contVars, tableVars,
                             searchVars, contingency_convergence >>
       \/ \E buses \in IslandSets :
             /\ run_load_flow(FALSE, TRUE, "island", v)
             /\ phase_log' = Append(phase_log, SolveCall(FALSE, TRUE))
             /\ convergent_load_flow' = FALSE
             /\ islanded_buses' = buses
             /\ test_result' = test_result
             /\ df_state' = add_islanded_busbars(df_state, buses, cur)
             /\ pc' = "locked_retry"
             /\ UNCHANGED << err, configVars, complianceVars, updateVars, switchVars, idx, sw, success, contVars,
                             df_voltage_step, df_voltage_steady, df_status, df_loading,
                             searchVars, contingency_convergence >>
       \/ \E kind \in SolverErrors :
             /\ Raise(kind)
             /\ bus_v' = v
             /\ lf_state' = "nonconv"
             /\ UNCHANGED << configVars, complianceVars, updateVars, switchVars, idx, contVars, applied, tableVars,
                             contingency_convergence >>

\* the repeated solve with islanded buses taken as an ordinary non-convergence
LockedRetry_no_raise ==
    /\ pc = "locked_retry"
    /\ \E v \in SolverProfiles :
       \/ \E outcome \in {"conv", "nonconv"} :
             /\ run_load_flow(FALSE, TRUE, outcome, v)
             /\ phase_log' = Append(phase_log, SolveCall(FALSE, TRUE))
             /\ convergent_load_flow' = Converged(outcome)
             /\ islanded_buses' = {}
             /\ test_result' = test_result
             /\ pc' = "record_step"
             /\ UNCHANGED << err, configVars, complianceVars, updateVars, switchVars, idx, sw, success, contVars, tableVars,
                             searchVars, contingency_convergence >>
       \/ \E buses \in IslandSets :
             /\ run_load_flow(FALSE, TRUE, "island", v)
             /\ phase_log' = Append(phase_log, SolveCall(FALSE, TRUE))
             /\ convergent_load_flow' = FALSE
             /\ islanded_buses' = buses
             /\ test_result' = test_result
             /\ pc' = "record_step"
             /\ UNCHANGED << err, configVars, complianceVars, updateVars, switchVars, idx, sw, success, contVars, tableVars,
                             searchVars, contingency_convergence >>

\* psse.py 1495-1498: the repeated solve; islanded buses again are fatal
LockedRetry ==
    /\ pc = "locked_retry"
    /\ \E v \in SolverProfiles :
       \/ \E outcome \in {"conv", "nonconv"} :
             /\ run_load_flow(FALSE, TRUE, outcome, v)
             /\ phase_log' = Append(phase_log, SolveCall(FALSE, TRUE))
             /\ convergent_load_flow' = Converged(outcome)
             /\ islanded_buses' = {}
             /\ test_result' = test_result
             /\ pc' = "record_step"
             /\ UNCHANGED << err, configVars, complianceVars, updateVars, switchVars, idx, sw, success, contVars, tableVars,
                             searchVars, contingency_convergence >>
       \/ \E kind \in SolverErrors \cup {StillIslanded} :
             \* a solver error, or islanded buses on the second run
             /\ Raise(kind)
             /\ bus_v' = v
             /\ lf_state' = "nonconv"
             /\ UNCHANGED << configVars, complianceVars, updateVars, switchVars, idx, contVars, applied, tableVars,
                             contingency_convergence >>

\* psse.py 1500-1513
RecordStep ==
    /\ pc = "record_step"
    /\ \/ /\ convergent_v_step' = convergent_load_flow
          /\ df_voltage_step' = update_voltages(df_voltage_step, cur, ~convergent_load_flow, bus_v)
          /\ pc' = "free"
          /\ UNCHANGED << err, configVars, complianceVars, updateVars, switchVars, idx, sw, success, busbars_to_ignore,
                          setup_correctly, convergent_v_steady, solverVars,
                          df_voltage_steady, df_state, df_status, df_loading,
                          testVars, searchVars, phase_log,
                          contingency_convergence >>
       \/ /\ convergent_load_flow        \* get_voltages raises
          /\ RaiseOnly(BusReadError)

\* a solve with free taps: islanded buses come back as (False, buses) and the
\* caller drops the buses
FreeTapSolve(flat_start, next_conv, next_nonconv) ==
    \E v \in SolverProfiles :
       \/ \E outcome \in {"conv", "nonconv", "island"} :
             /\ run_load_flow(flat_start, FALSE, outcome, v)
             /\ phase_log' = Append(phase_log, SolveCall(flat_start, FALSE))
             /\ convergent_load_flow' = Converged(outcome)
             /\ UNCHANGED << islanded_buses, test_result >>
             /\ pc' = IF Converged(outcome) THEN next_conv ELSE next_nonconv
             /\ UNCHANGED << err, configVars, complianceVars, updateVars, switchVars, idx, sw, success, contVars, tableVars,
                             searchVars, contingency_convergence >>
       \/ \E kind \in SolverErrors :
             /\ Raise(kind)
             /\ bus_v' = v
             /\ lf_state' = "nonconv"
             /\ UNCHANGED << configVars, complianceVars, updateVars, switchVars, idx, contVars, applied, tableVars,
                             contingency_convergence >>

\* psse.py 1517
FreeSolve ==
    /\ pc = "free"
    /\ FreeTapSolve(FALSE, "decide", "flat")

\* a flat-start retry followed by the warm solve whether or not it converged
FlatSolve_always_warm ==
    /\ pc = "flat"
    /\ FreeTapSolve(TRUE, "warm", "warm")

\* psse.py 1520
FlatSolve ==
    /\ pc = "flat"
    /\ FreeTapSolve(TRUE, "warm", "decide")

\* psse.py 1526
WarmSolve ==
    /\ pc = "warm"
    /\ FreeTapSolve(FALSE, "decide", "decide")

\* psse.py 1528-1538: no convergence and no compensation search
SteadyNonConvergent ==
    /\ pc = "decide"
    /\ ~convergent_load_flow /\ ~adjust_reactive
    /\ convergent_v_steady' = FALSE
    /\ df_voltage_steady' = update_voltages(df_voltage_steady, cur, TRUE, bus_v)
    /\ test_result' = "True"
    /\ pc' = "reload"
    /\ UNCHANGED << err, configVars, complianceVars, updateVars, switchVars, idx, sw, success, busbars_to_ignore, setup_correctly,
                    convergent_v_step, solverVars, df_voltage_step, df_state, df_status,
                    df_loading, convergent_load_flow, islanded_buses, searchVars,
                    phase_log, contingency_convergence >>

\* results recorded with the steady-state flag taken from the last solve
RecordResults_flag_of_last_solve ==
    /\ convergent_v_steady' = (lf_state = "conv")
    /\ df_voltage_steady' = update_voltages(df_voltage_steady, cur, FALSE, bus_v)
    /\ df_loading' = [t \in LoadingTables |-> SetCol(df_loading[t], cur, lf_state)]
    /\ df_status' = [t \in StatusTables |->
                        IF t \in {"circuit", "tx2", "tx3_wind"}
                        THEN SetCol(df_status[t], cur, lf_state) ELSE df_status[t]]
    /\ test_result' = "True"
    /\ pc' = "reload"

\* psse.py 1553-1558: steady-state results are taken from the solver
RecordResults ==
    /\ convergent_v_steady' = TRUE
    /\ df_voltage_steady' = update_voltages(df_voltage_steady, cur, FALSE, bus_v)
    /\ df_loading' = [t \in LoadingTables |-> SetCol(df_loading[t], cur, lf_state)]
    /\ df_status' = [t \in StatusTables |->
                        IF t \in {"circuit", "tx2", "tx3_wind"}
                        THEN SetCol(df_status[t], cur, lf_state) ELSE df_status[t]]
    /\ test_result' = "True"
    /\ pc' = "reload"

\* psse.py 1553-1558 when a read of the solver fails: get_voltages raises before
\* anything is written, or an update of a loading table raises after the
\* voltages were written
RecordRaises ==
    /\ convergent_v_steady' = TRUE
    /\ \/ /\ Raise(BusReadError)
          /\ UNCHANGED << df_voltage_steady >>
       \/ /\ \E kind \in ReadErrors : Raise(kind)
          /\ df_voltage_steady' = update_voltages(df_voltage_steady, cur, FALSE, bus_v)
    /\ UNCHANGED << configVars, complianceVars, updateVars, switchVars, idx, busbars_to_ignore, setup_correctly, convergent_v_step,
                    solverVars, df_voltage_step, df_state, df_status, df_loading,
                    contingency_convergence >>

\* psse.py 1539-1560 with adjust_reactive False
RecordNoSearch ==
    /\ pc = "decide"
    /\ convergent_load_flow /\ ~adjust_reactive
    /\ \/ /\ RecordResults
          /\ UNCHANGED << err, configVars, complianceVars, updateVars, switchVars, idx, sw, success, busbars_to_ignore,
                          setup_correctly, convergent_v_step, solverVars, df_voltage_step,
                          df_state, convergent_load_flow, islanded_buses, searchVars,
                          phase_log, contingency_convergence >>
       \/ RecordRaises

----------------------------------------------------------------------------
(* Contingency.check_voltage_adjust_machines *)

\* the condition of the while loop without the bound of the reactive dispatch
LoopCondition_no_q_bound ==
    ~within_limits /\ target_voltage > vmin_target

\* the condition of the while loop without the bound of the voltage target
LoopCondition_no_v_bound ==
    ~within_limits /\ target_q > q_max

\* the condition of the while loop without the test of within_limits
LoopCondition_bounds_only ==
    target_voltage > vmin_target /\ target_q > q_max

\* psse.py 1588: the condition of the while loop
LoopCondition ==
    ~within_limits /\ target_voltage > vmin_target /\ target_q > q_max

\* the voltage target stepped down from the last target, whichever bus it was for
NextTargetVoltage_from_last_target ==
    IF targets_log # << >>
    THEN target_voltage - v_step
    ELSE vmax_target

\* psse.py 1590-1593: the voltage target of this iteration
NextTargetVoltage ==
    IF target_bus \in DOMAIN targets_log
    THEN targets_log[target_bus] - v_step
    ELSE vmax_target

\* psse.py 1578-1584 and 1629-1635: check_within_limits reads the voltages of
\* the solver into the steady-state column, then the target bus is reset to 0
\* unless a remote bus is targeted
CheckWithinLimits ==
    /\ df_voltage_steady' = update_voltages(df_voltage_steady, cur, FALSE, bus_v')
    /\ within_limits' = WithinLimits(bus_v', busbars_to_ignore)
    /\ target_bus' = IF test_target_bus THEN IdxMax(bus_v', busbars_to_ignore) ELSE 0

\* psse.py 1539-1551 and 1572-1584: with adjust_reactive the search is entered
\* whether or not the last solve converged
SearchEntry ==
    /\ pc = "decide"
    /\ adjust_reactive
    /\ \/ /\ UNCHANGED solverVars
          /\ CheckWithinLimits
          /\ iter_count' = 0
          /\ targets_log' = << >>
          /\ target_voltage' = vmax_target
          /\ target_q' = q_min
          /\ phase_log' = << >>
          /\ pc' = "search_loop"
          /\ UNCHANGED << err, configVars, complianceVars, updateVars, switchVars, idx, sw, success, contVars, df_voltage_step,
                          df_state, df_status, df_loading, testVars,
                          contingency_convergence >>
       \/ RaiseOnly(BusReadError)

\* one solve of a search iteration; a converged solve (or, with check_anyway, any
\* solve) is followed by check_within_limits
SearchSolve(flat_start, log, check_anyway, next_nonconv, nonconv_resets) ==
    \E v \in SolverProfiles :
       \/ \E outcome \in {"conv", "nonconv", "island"} :
             /\ run_load_flow(flat_start, FALSE, outcome, v)
             /\ IF check_anyway \/ (Converged(outcome) /\ ~flat_start)
                THEN /\ CheckWithinLimits
                     /\ phase_log' = log \o << SolveCall(flat_start, FALSE), "check" >>
                     /\ pc' = "search_loop"
                ELSE /\ phase_log' = log \o << SolveCall(flat_start, FALSE) >>
                     /\ df_voltage_steady' = df_voltage_steady
                     /\ target_bus' = target_bus
                     /\ within_limits' = IF ~Converged(outcome) /\ nonconv_resets
                                         THEN FALSE ELSE within_limits
                     /\ pc' = IF Converged(outcome) THEN "search_resume" ELSE next_nonconv
       \/ \E kind \in SolverErrors :
             /\ Raise(kind)
             /\ bus_v' = v
             /\ lf_state' = "nonconv"
             /\ applied' = applied
             /\ df_voltage_steady' = df_voltage_steady

\* an iteration that calls check_within_limits after its first solve whether
\* or not the solve converged
SearchIterate_checks_anyway ==
    /\ pc = "search_loop"
    /\ LoopCondition
    /\ SearchSolve(FALSE, << "machines" >>, TRUE, "search_flat", FALSE)
    /\ \/ /\ pc' = "aborted"
          /\ UNCHANGED << configVars, complianceVars, updateVars, switchVars, idx, contVars, df_voltage_step, df_state,
                          df_status, df_loading, contingency_convergence >>
       \/ /\ pc' # "aborted"
          /\ target_voltage' = NextTargetVoltage
          /\ target_q' = target_q + q_step
          /\ targets_log' = SetCol(targets_log, target_bus, NextTargetVoltage)
          /\ iter_count' = iter_count + 1
          /\ UNCHANGED << err, configVars, complianceVars, updateVars, switchVars, idx, sw, success, contVars, df_voltage_step,
                          df_state, df_status, df_loading, testVars,
                          contingency_convergence >>

\* psse.py 1588-1613: the loop condition holds; targets are advanced, the
\* machines are changed and the first solve of the iteration runs
SearchIterate ==
    /\ pc = "search_loop"
    /\ LoopCondition
    /\ SearchSolve(FALSE, << "machines" >>, FALSE, "search_flat", FALSE)
    /\ \/ /\ pc' = "aborted"
          /\ UNCHANGED << configVars, complianceVars, updateVars, switchVars, idx, contVars, df_voltage_step, df_state,
                          df_status, df_loading, contingency_convergence >>
       \/ /\ pc' # "aborted"
          /\ target_voltage' = NextTargetVoltage
          /\ target_q' = target_q + q_step
          /\ targets_log' = SetCol(targets_log, target_bus, NextTargetVoltage)
          /\ iter_count' = iter_count + 1
          /\ UNCHANGED << err, configVars, complianceVars, updateVars, switchVars, idx, sw, success, contVars, df_voltage_step,
                          df_state, df_status, df_loading, testVars,
                          contingency_convergence >>

\* the flat-start retry with break in the place of continue: without
\* convergence the search ends
SearchFlat_breaks ==
    /\ pc = "search_flat"
    /\ SearchSolve(TRUE, phase_log, FALSE, "search_done", TRUE)
    /\ \/ /\ pc' = "aborted"
          /\ UNCHANGED << configVars, complianceVars, updateVars, switchVars, idx, contVars, df_voltage_step, df_state,
                          df_status, df_loading, contingency_convergence >>
       \/ /\ pc' # "aborted"
          /\ UNCHANGED << err, configVars, complianceVars, updateVars, switchVars, idx, sw, success, contVars, df_voltage_step,
                          df_state, df_status, df_loading, testVars,
                          iter_count, targets_log, target_voltage, target_q,
                          contingency_convergence >>

\* psse.py 1614-1628: the flat-start retry; without convergence the iteration
\* ends with within_limits False (continue)
SearchFlat ==
    /\ pc = "search_flat"
    /\ SearchSolve(TRUE, phase_log, FALSE, "search_loop", TRUE)
    /\ \/ /\ pc' = "aborted"
          /\ UNCHANGED << configVars, complianceVars, updateVars, switchVars, idx, contVars, df_voltage_step, df_state,
                          df_status, df_loading, contingency_convergence >>
       \/ /\ pc' # "aborted"
          /\ UNCHANGED << err, configVars, complianceVars, updateVars, switchVars, idx, sw, success, contVars, df_voltage_step,
                          df_state, df_status, df_loading, testVars,
                          iter_count, targets_log, target_voltage, target_q,
                          contingency_convergence >>

\* psse.py 1617 and 1629-1635: the solve resumed from the flat-start result (its
\* result is dropped), then check_within_limits
SearchResume ==
    /\ pc = "search_resume"
    /\ SearchSolve(FALSE, phase_log, TRUE, "search_loop", FALSE)
    /\ \/ /\ pc' = "aborted"
          /\ UNCHANGED << configVars, complianceVars, updateVars, switchVars, idx, contVars, df_voltage_step, df_state,
                          df_status, df_loading, contingency_convergence >>
       \/ /\ pc' # "aborted"
          /\ UNCHANGED << err, configVars, complianceVars, updateVars, switchVars, idx, sw, success, contVars, df_voltage_step,
                          df_state, df_status, df_loading, testVars,
                          iter_count, targets_log, target_voltage, target_q,
                          contingency_convergence >>

\* psse.py 1588 and 1637: the loop condition fails and the search returns
SearchExit ==
    /\ pc = "search_loop"
    /\ ~LoopCondition
    /\ pc' = "search_done"
    /\ UNCHANGED << err, configVars, complianceVars, updateVars, switchVars, idx, sw, success, contVars, solverVars, tableVars,
                    testVars, searchVars, phase_log, contingency_convergence >>

\* psse.py 1551-1560 with adjust_reactive True
RecordAfterSearch ==
    /\ pc = "search_done"
    /\ \/ /\ RecordResults
          /\ UNCHANGED << err, configVars, complianceVars, updateVars, switchVars, idx, sw, success, busbars_to_ignore,
                          setup_correctly, convergent_v_step, solverVars, df_voltage_step,
                          df_state, convergent_load_flow, islanded_buses, searchVars,
                          phase_log, contingency_convergence >>
       \/ RecordRaises

----------------------------------------------------------------------------
(* main(): end of a loop iteration and of the loop *)

\* Main.py 212-217: the SAV case is reloaded, then the convergence row of the
\* contingency is written
ReloadAndReport ==
    /\ pc = "reload"
    /\ \/ /\ load_data_case
          /\ contingency_convergence' =
                SetCol(contingency_convergence, cur,
                       [message |-> convergence_message(convergent_v_step, convergent_v_steady),
                        convergence |-> convergent_prop(convergent_v_step, convergent_v_steady)])
          /\ convergent_load_flow' = FALSE
          /\ UNCHANGED << islanded_buses, test_result >>
          /\ iter_count' = 0
          /\ targets_log' = << >>
          /\ within_limits' = FALSE
          /\ target_bus' = 0
          /\ target_voltage' = vmax_target
          /\ target_q' = q_min
          /\ pc' = "loop"
          /\ UNCHANGED << err, configVars, complianceVars, updateVars, switchVars, idx, sw, success, contVars, tableVars, phase_log >>
       \/ RaiseOnly(LoadError)

\* Main.py 219: every contingency has been processed
Finish ==
    /\ pc = "loop"
    /\ idx = Len(contingency_names)
    /\ pc' = "done"
    /\ UNCHANGED << err, configVars, complianceVars, updateVars, switchVars, idx, sw, success, contVars, solverVars, tableVars,
                    testVars, searchVars, phase_log, contingency_convergence >>

----------------------------------------------------------------------------
(* The batch loop over the network cases, Main.py 280-298 *)

\* main() returned, or raised an exception the loop catches
CaseEnded == pc = "done" \/ (pc = "aborted" /\ err.type = "ValueError")

\* Main.py 281-296: the loop goes on to the next network case; main() builds
\* new tables, the solver is as the last case left it
NextCase ==
    /\ CaseEnded
    /\ case_i < NumCases
    /\ case_i' = case_i + 1
    /\ adjust_reactive' = adjust_reactive_comp[case_i + 1]
    /\ pc' = "start"
    /\ err' = NoError
    /\ idx' = 0
    /\ sw' = 0
    /\ success' = << >>
    /\ busbars_to_ignore' = {}
    /\ setup_correctly' = FALSE
    /\ convergent_v_step' = FALSE
    /\ convergent_v_steady' = FALSE
    /\ df_voltage_step' = << >>
    /\ df_voltage_steady' = << >>
    /\ df_state' = << >>
    /\ df_status' = [t \in StatusTables |-> << >>]
    /\ df_loading' = [t \in LoadingTables |-> << >>]
    /\ convergent_load_flow' = FALSE
    /\ islanded_buses' = {}
    /\ test_result' = "none"
    /\ iter_count' = 0
    /\ targets_log' = << >>
    /\ within_limits' = FALSE
    /\ target_bus' = 0
    /\ target_voltage' = vmax_target
    /\ target_q' = q_min
    /\ phase_log' = << >>
    /\ contingency_convergence' = << >>
    /\ UNCHANGED << adjust_reactive_comp, contingency_names, test_target_bus, target_shunts,
                    solverVars, complianceVars, updateVars, switchVars >>

\* Main.py 298: the last network case has ended
BatchEnd ==
    /\ CaseEnded
    /\ case_i = NumCases
    /\ pc' = "batch_end"
    /\ UNCHANGED << err, configVars, complianceVars, updateVars, switchVars, idx, sw, success, contVars, solverVars, tableVars,
                    testVars, searchVars, phase_log, contingency_convergence >>

\* Main.py 295: an exception that is not a ValueError leaves the loop and ends
\* the script
Uncaught ==
    /\ pc = "aborted"
    /\ err.type # "ValueError"
    /\ pc' = "uncaught"
    /\ UNCHANGED << err, configVars, complianceVars, updateVars, switchVars, idx, sw, success, contVars, solverVars, tableVars,
                    testVars, searchVars, phase_log, contingency_convergence >>

----------------------------------------------------------------------------
Next ==
    \/ LoadCase
    \/ InitialLoadFlow
    \/ CreateData
    \/ ImportContingencies
    \/ NextContingency
    \/ SetupBaseCase
    \/ SwitchElement
    \/ SetupUpdate
    \/ TestNotSetup
    \/ LockedSolve
    \/ LockedRetry
    \/ RecordStep
    \/ FreeSolve
    \/ FlatSolve
    \/ WarmSolve
    \/ SteadyNonConvergent
    \/ RecordNoSearch
    \/ SearchEntry
    \/ SearchIterate
    \/ SearchFlat
    \/ SearchResume
    \/ SearchExit
    \/ RecordAfterSearch
    \/ ReloadAndReport
    \/ Finish
    \/ NextCase
    \/ BatchEnd
    \/ Uncaught

Spec == Init /\ [][Next]_vars

----------------------------------------------------------------------------
(* The compliance stage of main(), Main.py 178-241, and the functions it calls.
   The solver part of the study loop is left out here: what test_contingency
   recorded for a contingency is drawn from RecordedVoltages and
   RecordedLoadings. The frames are the same variables as above; their columns
   hold numbers (thousandths of a pu, MVA) *)

\* sheets of the contingency workbook (file_handling.py 115-131)
Sheets == {"circuits", "tx2", "tx3", "busbars", "fixed_shunts", "switched_shunts"}

\* names of the contingencies of the workbook of the compliance studies
ComplianceNames == << "Outage-A", "Outage-B" >>

\* the sheets with rows of the first and of the second contingency: every name
\* of the workbook comes from a row of some sheet (file_handling.py 60-108)
SheetsOfFirst ==
    { {"circuits"}, {"tx2"}, {"tx3"}, {"busbars"}, {"fixed_shunts"}, {"switched_shunts"},
      {"circuits", "switched_shunts"}, {"fixed_shunts", "switched_shunts"} }
SheetsOfSecond == { {"circuits"}, {"switched_shunts"} }

Workbooks ==
    { (ComplianceNames[1] :> a) @@ (ComplianceNames[2] :> b) : a \in SheetsOfFirst, b \in SheetsOfSecond }

\* nominal voltages (kV) the first busbar of the case may have, all in the
\* range 109..401 of the bus subsystem (psse.py 1838-1866); the second one is
\* a 110 kV busbar
NominalValues == {109, 110, 111, 150, 220, 275, 380, 401}
NominalColumns == { (1 :> kv) @@ (2 :> 110) : kv \in NominalValues }

\* the loading frame behind a column of the summary
LoadingFrameOf == ("Circuit Loading" :> "circuit") @@ ("2 Winding Loading" :> "tx2")
                  @@ ("3 Winding Loading" :> "tx3_wind")
ComplianceLoadingTables == {"circuit", "tx2", "tx3_wind"}

\* elements (branches, transformers, windings) of each loading frame
Elements == {1, 2}

\* column RATEA (MVA) the solver may return for a loading frame
RatingColumns == { (1 :> 100) @@ (2 :> 100), (1 :> 0) @@ (2 :> 100), (1 :> (0 - 1)) @@ (2 :> 100) }

\* loading columns (MVA) a contingency may leave in a loading frame
RecordedLoadings == { (1 :> 50) @@ (2 :> 99), (1 :> 50) @@ (2 :> 100), (1 :> 100) @@ (2 :> 99),
                      (1 :> 50) @@ (2 :> 101) }

\* step change and steady state columns a contingency may leave: voltage steps
\* of 0.100, 0.101, 0.030, 0.031 and -0.100 pu against the base case, the
\* sentinel of a non-convergent step change solve, a steady state voltage above
\* the upper limit
RecordedVoltages ==
    { [step |-> (1 :> 1100) @@ (2 :> 1000), steady |-> (1 :> 1000) @@ (2 :> 1000)],
      [step |-> (1 :> 1101) @@ (2 :> 1000), steady |-> (1 :> 1000) @@ (2 :> 1000)],
      [step |-> (1 :> 1030) @@ (2 :> 1000), steady |-> (1 :> 1000) @@ (2 :> 1000)],
      [step |-> (1 :> 1031) @@ (2 :> 1000), steady |-> (1 :> 1000) @@ (2 :> 1000)],
      [step |-> (1 :> 1000) @@ (2 :> 900),  steady |-> (1 :> 1000) @@ (2 :> 1000)],
      [step |-> (1 :> 1000) @@ (2 :> 1000), steady |-> (1 :> 1100) @@ (2 :> 1000)],
      [step |-> (1 :> NaN) @@ (2 :> NaN),   steady |-> (1 :> 1000) @@ (2 :> 1000)] }

\* what the second contingency of the workbook may leave
RecordedVoltagesOfSecond ==
    { [step |-> (1 :> 1020) @@ (2 :> 1000), steady |-> (1 :> 1000) @@ (2 :> 1000)],
      [step |-> (1 :> 1000) @@ (2 :> 1040), steady |-> (1 :> 1000) @@ (2 :> 1000)] }
RecordedLoadingsOfSecond == { (1 :> 50) @@ (2 :> 99) }

\* constants.EirGridThresholds, the voltage steps in thousandths of a pu
reactor_step_change_limit == 30
cont_step_change_limit == 100
rating_threshold == 0

\* variables of the study above the compliance stage does not use
studyVars == << case_i, adjust_reactive_comp, adjust_reactive, test_target_bus, target_shunts,
               sw, success, contVars, solverVars, df_state, df_status, testVars, searchVars,
               phase_log, updateVars, switchVars >>

\* main() at Main.py 144 (the case is loaded, the base case load flow has
\* converged) for a case and a workbook drawn from the sets above
InitCompliance ==
    /\ pc = "create_data"
    /\ err = NoError
    /\ case_i = 1
    /\ adjust_reactive_comp = NoSearch
    /\ adjust_reactive = FALSE
    /\ test_target_bus = FALSE
    /\ target_shunts = FALSE
    /\ contingency_names = ComplianceNames
    /\ idx = 0
    /\ sw = 0
    /\ success = << >>
    /\ busbars_to_ignore = {}
    /\ setup_correctly = FALSE
    /\ convergent_v_step = FALSE
    /\ convergent_v_steady = FALSE
    /\ applied = {}
    /\ lf_state = "conv"
    /\ bus_v = BaseProfile
    /\ df_voltage_step = << >>
    /\ df_voltage_steady = << >>
    /\ df_state = << >>
    /\ df_status = [t \in StatusTables |-> << >>]
    /\ df_loading = [t \in ComplianceLoadingTables |-> << >>]
    /\ convergent_load_flow = FALSE
    /\ islanded_buses = {}
    /\ test_result = "none"
    /\ NoLocals
    /\ phase_log = << >>
    /\ contingency_convergence = << >>
    /\ nominal_kv \in NominalColumns
    /\ workbook \in Workbooks
    /\ ComplianceStart
    /\ data_set = "none"
    /\ ierr = << >>
    /\ SwitchStart

\* the members of a list
Range(list) == { list[i] : i \in 1..Len(list) }

Abs(x) == IF x < 0 THEN 0 - x ELSE x

\* BusData.add_voltage_limits (psse.py 944-973): the limits a bus of this
\* nominal voltage is left with. Every band row that holds the nominal voltage
\* writes its limits, in the order of the dictionary; no row writes anything
\* for a bus outside every band and the cells stay np.nan
add_voltage_limits(kv) ==
    IF BandsOf(kv) = {}
    THEN { [lower_limit |-> NoLimit, upper_limit |-> NoLimit] }
    ELSE { [lower_limit |-> r.lower_limit, upper_limit |-> r.upper_limit] : r \in BandsOf(kv) }

\* a contingency taken as voltage control as soon as it switches a shunt
voltage_control_contingency_any_shunt(sheets) ==
    sheets \cap {"fixed_shunts", "switched_shunts"} # {}

\* Contingency.__init__ (psse.py 1339-1342), sheets = the sheets with rows of the contingency
voltage_control_contingency(sheets) ==
    sheets \cap {"circuits", "tx2", "tx3", "busbars"} = {}

\* psse.py 1118-1123: |v - base| <= voltage_step_limit, False against np.nan
VoltageStepWithin(v, base, voltage_step_limit) ==
    IF v = NaN \/ base = NaN THEN FALSE ELSE Abs(v - base) <= voltage_step_limit

\* psse.py 1118-1128, voltage step check of one contingency. DataFrame.sub
\* aligns the rows of the contingency columns (the index without the rows to
\* ignore) with the rows of the column PU (the whole index) and keeps the
\* union: a row 'Compliant' or 'Voltage Step Limit' the index holds comes back
\* as np.nan and fails the comparison
StepCompliant(df, rows, cont, voltage_step_limit) ==
    /\ \A b \in Buses : VoltageStepWithin(df[cont][b], df["PU"][b], voltage_step_limit)
    /\ rows = {}

\* BusData.check_compliance(cont_names, voltage_step_limit) (psse.py 1107-1139)
\* on the frame df with index rows `rows`, row 'Compliant' crow and row
\* 'Voltage Step Limit' lrow. .loc[compliant, cont_names] raises KeyError when
\* the index has no row 'Compliant', which is so when no earlier call wrote it
\* and cont_names is empty
BusData_check_compliance_step(df, rows, crow, lrow, cont_names, voltage_step_limit) ==
    LET value == [n \in Range(cont_names) |-> StepCompliant(df, rows, n, voltage_step_limit)]
        wrote == Range(cont_names) # {}
    IN  [raises        |-> ~wrote /\ "Compliant" \notin rows,
         rows          |-> IF wrote THEN rows \cup {"Compliant", "Voltage Step Limit"} ELSE rows,
         compliant     |-> value @@ crow,
         v_step_lbl    |-> [n \in Range(cont_names) |-> voltage_step_limit] @@ lrow,
         df_compliance |-> value]

\* psse.py 1092-1097, steady state check of one contingency; a row 'Compliant'
\* of the index is compared like a bus and fails against its np.nan limits
SteadyCompliant(df, limits, rows, cont) ==
    /\ \A b \in Buses : /\ LeqLimit(df[cont][b], limits[b].upper_limit)
                        /\ GeqLimit(df[cont][b], limits[b].lower_limit)
    /\ rows = {}

\* psse.py 328-333 (BranchData, circuits and two winding transformers)
BranchCompliant(df, rows, cont) ==
    /\ \A e \in Elements : \/ df[cont][e] < df["RATEA"][e]
                           \/ rating_threshold = df["RATEA"][e]
    /\ rows = {}

\* psse.py 648-653 (Tx3WndData)
Tx3WndCompliant(df, rows, cont) ==
    /\ \A e \in Elements : \/ df[cont][e] < df["RATEA"][e]
                           \/ df["RATEA"][e] <= rating_threshold
    /\ rows = {}

\* check_compliance(cont_names) of the data set behind a column of the summary:
\* BusData (psse.py 1088-1105), BranchData (295-348), Tx3WndData (623-665)
DataSetCompliant(col, cont) ==
    CASE col = "V Steady" -> SteadyCompliant(df_voltage_steady, df_limits, index_rows[col], cont)
      [] col = "3 Winding Loading" -> Tx3WndCompliant(df_loading[LoadingFrameOf[col]], index_rows[col], cont)
      [] OTHER -> BranchCompliant(df_loading[LoadingFrameOf[col]], index_rows[col], cont)

\* the exception of psse.py 1135 for an empty list of names
NoCompliantRow == [type |-> "KeyError", msg |-> "Compliant"]

\* Main.py 144-151: the snapshot frames are created from the solved base case;
\* BusData.update adds the limits (psse.py 925), the loading frames get the
\* ratings the solver returns
CreateTables ==
    /\ pc = "create_data"
    /\ df_voltage_step' = ("PU" :> BaseProfile) @@ (bc :> BaseProfile)
    /\ df_voltage_steady' = ("PU" :> BaseProfile) @@ (bc :> BaseProfile)
    /\ \E limits \in [Buses -> UNION { add_voltage_limits(kv) : kv \in NominalValues }] :
          /\ \A b \in Buses : limits[b] \in add_voltage_limits(nominal_kv[b])
          /\ df_limits' = limits
    /\ \E ratea \in RatingColumns :
          df_loading' = [t \in ComplianceLoadingTables |->
                           ("RATEA" :> ratea) @@ (bc :> [e \in Elements |-> 50])]
    /\ pc' = "import"
    /\ UNCHANGED << err, studyVars, contingency_names, idx, contingency_convergence,
                    nominal_kv, workbook, circuit_switching, shunt_switching, index_rows,
                    compliant_row, v_step_lbl_row, compliance, contingency_compliance >>

\* Main.py 153-187: the workbook is imported, the lists of names are empty and
\* the convergence frame has its base case row
ImportWorkbook ==
    /\ pc = "import"
    /\ circuit_switching' = << >>
    /\ shunt_switching' = << >>
    /\ contingency_convergence' = (bc :> [message |-> convergent, convergence |-> TRUE])
    /\ pc' = "loop"
    /\ UNCHANGED << err, studyVars, contingency_names, idx, df_voltage_step, df_voltage_steady,
                    df_loading, nominal_kv, df_limits, workbook, index_rows, compliant_row,
                    v_step_lbl_row, compliance, contingency_compliance >>

\* Main.py 190-217, one pass of the study loop: the contingency is put on one
\* list, set up, tested (what it leaves in the frames is drawn), reported
ProcessContingency ==
    /\ pc = "loop"
    /\ idx < Len(contingency_names)
    /\ idx' = idx + 1
    /\ LET name == contingency_names[idx + 1] IN
          /\ IF voltage_control_contingency(workbook[name])
             THEN /\ shunt_switching' = Append(shunt_switching, name)
                  /\ UNCHANGED circuit_switching
             ELSE /\ circuit_switching' = Append(circuit_switching, name)
                  /\ UNCHANGED shunt_switching
          /\ \E v \in (IF idx = 0 THEN RecordedVoltages ELSE RecordedVoltagesOfSecond),
                ld \in (IF idx = 0 THEN RecordedLoadings ELSE RecordedLoadingsOfSecond) :
                /\ df_voltage_step' = SetCol(df_voltage_step, name, v.step)
                /\ df_voltage_steady' = SetCol(df_voltage_steady, name, v.steady)
                /\ df_loading' = [t \in ComplianceLoadingTables |-> SetCol(df_loading[t], name, ld)]
                /\ LET step == \A b \in Buses : v.step[b] # NaN
                       steady == \A b \in Buses : v.steady[b] # NaN
                   IN  contingency_convergence' =
                          SetCol(contingency_convergence, name,
                                 [message |-> convergence_message(step, steady),
                                  convergence |-> convergent_prop(step, steady)])
    /\ UNCHANGED << pc, err, studyVars, contingency_names, nominal_kv, df_limits, workbook,
                    index_rows, compliant_row, v_step_lbl_row, compliance, contingency_compliance >>

\* Main.py 222-233: the voltage step check of the circuit switching
\* contingencies, then of the voltage control contingencies, their results
\* joined and the base case row set
CheckStepChange ==
    /\ pc = "loop"
    /\ idx = Len(contingency_names)
    /\ LET cont == BusData_check_compliance_step(
                       df_voltage_step, index_rows["V Step"], compliant_row["V Step"],
                       v_step_lbl_row, circuit_switching, cont_step_change_limit)
           reactor == BusData_check_compliance_step(
                       df_voltage_step, cont.rows, cont.compliant,
                       cont.v_step_lbl, shunt_switching, reactor_step_change_limit)
       IN  IF cont.raises
           THEN /\ pc' = "aborted"
                /\ err' = NoCompliantRow
                /\ UNCHANGED << index_rows, compliant_row, v_step_lbl_row, compliance >>
           ELSE /\ index_rows' = [index_rows EXCEPT !["V Step"] = reactor.rows]
                /\ compliant_row' = [compliant_row EXCEPT !["V Step"] = reactor.compliant]
                /\ v_step_lbl_row' = reactor.v_step_lbl
                /\ IF reactor.raises
                   THEN /\ pc' = "aborted"
                        /\ err' = NoCompliantRow
                        /\ UNCHANGED compliance
                   ELSE /\ compliance' =
                              << [column |-> "V Step",
                                  cells |-> (bc :> TRUE) @@ cont.df_compliance @@ reactor.df_compliance] >>
                        /\ pc' = "data_sets"
                        /\ UNCHANGED err
    /\ UNCHANGED << studyVars, contingency_names, idx, df_voltage_step, df_voltage_steady,
                    df_loading, contingency_convergence, nominal_kv, df_limits, workbook,
                    circuit_switching, shunt_switching, contingency_compliance >>

\* Main.py 236: for data_set in (bus_data, circuit_data, tx2_data, tx3_wind_data)
data_sets == << "V Steady", "Circuit Loading", "2 Winding Loading", "3 Winding Loading" >>

\* Main.py 235-238, one pass of the loop: check_compliance of the next data set
\* for all_cont_names writes the row 'Compliant' of its frame and its result
\* joins the list
CheckDataSet ==
    /\ pc = "data_sets"
    /\ Len(compliance) <= Len(data_sets)
    /\ LET col == data_sets[Len(compliance)]
           all_cont_names == circuit_switching \o shunt_switching
           value == [n \in Range(all_cont_names) |-> DataSetCompliant(col, n)]
       IN  /\ index_rows' = [index_rows EXCEPT ![col] = @ \cup {"Compliant"}]
           /\ compliant_row' = [compliant_row EXCEPT ![col] = value @@ @]
           /\ compliance' = Append(compliance, [column |-> col, cells |-> value])
    /\ UNCHANGED << pc, err, studyVars, contingency_names, idx, df_voltage_step,
                    df_voltage_steady, df_loading, contingency_convergence, nominal_kv,
                    df_limits, workbook, circuit_switching, shunt_switching, v_step_lbl_row,
                    contingency_compliance >>

\* Main.py 241: pd.concat([contingency_convergence] + compliance, axis=1). The
\* row of a name holds the cells of the frames that have a row of that name; a
\* cell of a frame without such a row is np.nan and is left out of the row
\* here: `convergence` is the row of the convergence frame (or nothing),
\* `compliance` the cells of the compliance frames by their column
Summarise ==
    /\ pc = "data_sets"
    /\ Len(compliance) = Len(data_sets) + 1
    /\ LET index == (DOMAIN contingency_convergence)
                        \cup UNION { DOMAIN compliance[i].cells : i \in 1..Len(compliance) }
           row(n) == LET held == { i \in 1..Len(compliance) : n \in DOMAIN compliance[i].cells }
                     IN  [c \in { compliance[i].column : i \in held } |->
                            compliance[CHOOSE i \in held : compliance[i].column = c].cells[n]]
       IN  contingency_compliance' =
              [n \in index |->
                 [convergence |-> IF n \in DOMAIN contingency_convergence
                                  THEN << contingency_convergence[n] >> ELSE << >>,
                  compliance |-> row(n)]]
    /\ pc' = "done"
    /\ UNCHANGED << err, studyVars, contingency_names, idx, df_voltage_step, df_voltage_steady,
                    df_loading, contingency_convergence, nominal_kv, df_limits, workbook,
                    circuit_switching, shunt_switching, index_rows, compliant_row,
                    v_step_lbl_row, compliance >>

NextCompliance ==
    \/ CreateTables
    \/ ImportWorkbook
    \/ ProcessContingency
    \/ CheckStepChange
    \/ CheckDataSet
    \/ Summarise

SpecCompliance == InitCompliance /\ [][NextCompliance]_vars

\* columns of the summary that come from check_compliance
CheckedColumns == {"V Step"} \cup Range(data_sets)

\* check_compliance is called once more, after main() has used it, for a frame
\* and the names of its earlier call (psse.py 1067-1141, 295-348, 623-665): the
\* frame holds the rows the earlier call wrote
CheckAgain ==
    /\ pc = "done"
    /\ \E col \in CheckedColumns :
          LET all_cont_names == circuit_switching \o shunt_switching
              step == BusData_check_compliance_step(
                          df_voltage_step, index_rows["V Step"], compliant_row["V Step"],
                          v_step_lbl_row, circuit_switching, cont_step_change_limit)
              value == IF col = "V Step"
                       THEN step.df_compliance
                       ELSE [n \in Range(all_cont_names) |-> DataSetCompliant(col, n)]
          IN  /\ index_rows' = [index_rows EXCEPT ![col] = IF col = "V Step" THEN step.rows
                                                           ELSE @ \cup {"Compliant"}]
              /\ compliant_row' = [compliant_row EXCEPT ![col] = value @@ @]
              /\ v_step_lbl_row' = IF col = "V Step" THEN step.v_step_lbl ELSE v_step_lbl_row
              /\ compliance' = Append(compliance, [column |-> col, cells |-> value])
    /\ pc' = "checked_again"
    /\ UNCHANGED << err, studyVars, contingency_names, idx, df_voltage_step, df_voltage_steady,
                    df_loading, contingency_convergence, nominal_kv, df_limits, workbook,
                    circuit_switching, shunt_switching, contingency_compliance >>

NextCheckAgain ==
    \/ CreateTables
    \/ ImportWorkbook
    \/ ProcessContingency
    \/ CheckStepChange
    \/ CheckDataSet
    \/ Summarise
    \/ CheckAgain

SpecCheckAgain == InitCompliance /\ [][NextCheckAgain]_vars

----------------------------------------------------------------------------
(* update() of the snapshot tables, taken alone: one data set of the case is
   built by update() and then updated for contingencies, while the solver
   returns any error codes to its read calls *)

\* the data sets main() creates (Main.py 144-151)
DataSets == {"bus", "machine", "circuit", "tx2", "tx3", "tx3_wind", "fixed_shunt", "switched_shunt"}

\* values of cont_name: None, or the name of a contingency
None == "None"
UpdateNames == {"Outage-A", "Outage-B"}

\* error codes the solver may return to a read call
IerrCodes == {0, 1}

\* states the solver may be in when update() reads it
SolverStates == {"conv", "nonconv", "switched"}

\* the read calls update() of a data set makes: a***int, a***char, a***real
ReadCalls(t) ==
    IF t \in {"tx3", "fixed_shunt", "switched_shunt"} THEN {"int", "char"}
    ELSE {"int", "char", "real"}

\* exceptions of the statements after the test of the error codes, when an
\* array of a failed read is not a list or has no rows
ConcatError == [type |-> "TypeError", msg |-> "can only concatenate list"]
LengthError == [type |-> "ValueError", msg |-> "Length mismatch"]

\* what update() does for the error codes of its read calls: the exception it
\* raises, NoError when it goes on to write its columns.
\* BranchData.update (psse.py 158-184), circuits and two winding transformers
BranchData_update(codes) ==
    IF codes["int"] > 0 \/ codes["char"] > 0 \/ codes["real"] > 0
    THEN {BranchReadError} ELSE {NoError}

\* ShuntData.update (psse.py 389-413)
ShuntData_update(codes) ==
    IF codes["int"] > 0 \/ codes["char"] > 0 THEN {BranchReadError} ELSE {NoError}

\* Tx3WndData.update (psse.py 556-587)
Tx3WndData_update(codes) ==
    IF codes["int"] > 0 \/ codes["char"] > 0 \/ codes["real"] > 0
    THEN {BranchReadError} ELSE {NoError}

\* Tx3Data.update (psse.py 705-725)
Tx3Data_update(codes) ==
    IF codes["int"] > 0 \/ codes["char"] > 0 THEN {BranchReadError} ELSE {NoError}

\* BusData.update (psse.py 885-902) and the get_voltages it calls (psse.py 860-871)
BusData_update(codes) ==
    IF codes["int"] > 0 \/ codes["char"] > 0 THEN {BusReadError}
    ELSE IF codes["real"] > 0 THEN {BusReadError}
    ELSE {NoError}

\* MachineData.update (psse.py 1202-1224): `or` binds weaker than `and`, the
\* test is ierr_int > 0 or (ierr_char > 0 and ierr_real > 0). When it lets a
\* failed read through, what follows depends on the array the solver returned
\* with the error code: not a list (the concatenation raises), a list without
\* rows (the column headers do not fit), or a list of rows (the column is written)
MachineData_update(codes) ==
    IF codes["int"] > 0 \/ (codes["char"] > 0 /\ codes["real"] > 0) THEN {BusReadError}
    ELSE IF codes["char"] > 0 \/ codes["real"] > 0 THEN {ConcatError, LengthError, NoError}
    ELSE {NoError}

\* update() of the data set t
UpdateOutcomes(t, codes) ==
    CASE t = "bus" -> BusData_update(codes)
      [] t = "machine" -> MachineData_update(codes)
      [] t \in {"circuit", "tx2"} -> BranchData_update(codes)
      [] t = "tx3_wind" -> Tx3WndData_update(codes)
      [] t = "tx3" -> Tx3Data_update(codes)
      [] OTHER -> ShuntData_update(codes)

\* the frames of the data set t hold the columns update() without a name builds
HasBaseCase(t) ==
    /\ t = "bus" => bc \in DOMAIN df_state
    /\ t \in StatusTables => bc \in DOMAIN df_status[t]
    /\ t \in LoadingTables => bc \in DOMAIN df_loading[t]

\* the columns update(cont_name) writes for the data set t: without a name the
\* frames are built anew with their base case column, with a name the column of
\* that name is set (for the busbars psse.py 934 sets the state only)
WriteColumns(t, cont_name) ==
    /\ df_state' = IF t # "bus" THEN df_state
                   ELSE IF cont_name = None THEN (bc :> Broadcast(lf_state))
                   ELSE SetCol(df_state, cont_name, Broadcast(lf_state))
    /\ df_voltage_steady' = IF t = "bus" /\ cont_name = None THEN (bc :> bus_v) ELSE df_voltage_steady
    /\ df_voltage_step' = IF t = "bus" /\ cont_name = None THEN (bc :> bus_v) ELSE df_voltage_step
    /\ df_status' = IF t \notin StatusTables THEN df_status
                    ELSE [df_status EXCEPT ![t] = IF cont_name = None THEN (bc :> lf_state)
                                                  ELSE SetCol(@, cont_name, lf_state)]
    /\ df_loading' = IF t \notin LoadingTables THEN df_loading
                     ELSE [df_loading EXCEPT ![t] = IF cont_name = None THEN (bc :> lf_state)
                                                    ELSE SetCol(@, cont_name, lf_state)]

\* variables update() does not use
nonUpdateVars == << configVars, complianceVars, switchVars, idx, sw, success, contVars, applied, bus_v,
                   testVars, searchVars, phase_log, contingency_convergence >>

\* a data set of the case, before its constructor calls update()
InitUpdate ==
    /\ pc = "update"
    /\ err = NoError
    /\ case_i = 1
    /\ adjust_reactive_comp = NoSearch
    /\ adjust_reactive = FALSE
    /\ test_target_bus = FALSE
    /\ target_shunts = FALSE
    /\ contingency_names = << "Outage-A", "Outage-B" >>
    /\ idx = 0
    /\ sw = 0
    /\ success = << >>
    /\ busbars_to_ignore = {}
    /\ setup_correctly = FALSE
    /\ convergent_v_step = FALSE
    /\ convergent_v_steady = FALSE
    /\ applied = {}
    /\ lf_state = "conv"
    /\ bus_v = BaseProfile
    /\ df_voltage_step = << >>
    /\ df_voltage_steady = << >>
    /\ df_state = << >>
    /\ df_status = [t \in StatusTables |-> << >>]
    /\ df_loading = [t \in LoadingTables |-> << >>]
    /\ convergent_load_flow = FALSE
    /\ islanded_buses = {}
    /\ test_result = "none"
    /\ NoLocals
    /\ phase_log = << >>
    /\ contingency_convergence = << >>
    /\ nominal_kv = nominal
    /\ workbook = << >>
    /\ ComplianceStart
    /\ data_set \in DataSets
    /\ ierr = << >>
    /\ SwitchStart

\* update(cont_name) of the data set: the read calls return their codes, then
\* update() raises or writes. ShuntData.update returns without writing when the
\* case has no shunt of its kind (psse.py 427-430)
UpdateTable ==
    /\ pc = "update"
    /\ \E cont_name \in {None} \cup UpdateNames, codes \in [ReadCalls(data_set) -> IerrCodes],
          no_rows \in BOOLEAN :
          /\ cont_name # None => HasBaseCase(data_set)
          /\ no_rows => data_set \in {"fixed_shunt", "switched_shunt"}
          /\ ierr' = codes
          /\ \E outcome \in UpdateOutcomes(data_set, codes) :
                IF outcome = NoError
                THEN /\ IF no_rows
                        THEN UNCHANGED tableVars
                        ELSE WriteColumns(data_set, cont_name)
                     /\ pc' = "updated"
                     /\ UNCHANGED err
                ELSE /\ pc' = "aborted"
                     /\ err' = outcome
                     /\ UNCHANGED tableVars
    /\ UNCHANGED << nonUpdateVars, lf_state, data_set >>

\* the study goes on: the solver is left in another state before the next update()
SolverChanges ==
    /\ pc = "updated"
    /\ lf_state' \in SolverStates
    /\ pc' = "update"
    /\ UNCHANGED << err, nonUpdateVars, tableVars, updateVars >>

NextUpdate ==
    \/ UpdateTable
    \/ SolverChanges

SpecUpdate == InitUpdate /\ [][NextUpdate]_vars

----------------------------------------------------------------------------
(* Contingency.setup_contingency row by row: the elements of the network are
   followed one by one, the solves are not. The contingency is applied, and
   then either restored by setup_contingency(restore=True) or undone by
   reloading the case. *)

\* sheets of the workbook in the order setup_contingency goes through them
\* (psse.py 1416-1438)
SwitchKinds == << "circuit", "tx2", "tx3", "bus", "fixed_shunt", "switched_shunt" >>

\* position of a sheet in that order
KindOrder(kind) == CHOOSE i \in 1..Len(SwitchKinds) : SwitchKinds[i] = kind

\* elements of the case (two of each kind) and an element the case does not have
CaseKeys == {1, 2}
MissingKey == 3

\* the case as loaded: of each kind one element in service and one out of service
BaseNet == [kind \in Range(SwitchKinds) |-> [key \in CaseKeys |-> IF key = 1 THEN 1 ELSE 0]]

\* rows a sheet can hold: the element and the status to switch it to
SwitchRows == [kind : Range(SwitchKinds), key : CaseKeys \cup {MissingKey}, status : {0, 1}]

\* rows of one contingency, sheet by sheet
Switchings ==
    {s \in UNION {[1..n -> SwitchRows] : n \in 1..MaxSwitch} :
        \A i \in 1..(Len(s) - 1) : KindOrder(s[i].kind) <= KindOrder(s[i + 1].kind)}

\* Series.item() on a selection that matched no row (psse.py 249-253, 473-476, 789-794)
ItemError == [type |-> "ValueError", msg |-> "can only convert an array of size 1 to a Python scalar"]
\* int() of a selection that matched no row (psse.py 1003-1008, 1020)
IntError == [type |-> "TypeError", msg |-> "cannot convert the series to <type 'int'>"]

\* psse.py 268-293, 489-517, 806-832, 1013-1028: the solver switches an
\* element of the case to the status, or returns an error code and changes nothing;
\* for an element the case does not have it returns an error code
switch(n, row, status, ok) ==
    IF ok /\ row.key \in DOMAIN n[row.kind]
    THEN [n EXCEPT ![row.kind][row.key] = status]
    ELSE n

\* results the solver can give to a switch command for the element of the row
SwitchResults(row) == IF row.key \in CaseKeys THEN BOOLEAN ELSE {FALSE}

\* psse.py 249-253 and the like: the original status of the element of the row,
\* from the column STATUS of its snapshot table
OriginalStatus(row) == df_status[row.kind]["STATUS"][row.key]

\* the selection of the original status matched one row
InSnapshot(row) == row.key \in DOMAIN df_status[row.kind]["STATUS"]

\* variables setup_contingency does not use
nonSwitchVars == << configVars, complianceVars, updateVars, idx, busbars_to_ignore,
                   convergent_v_step, convergent_v_steady, applied, lf_state, bus_v,
                   df_state, testVars, searchVars, contingency_convergence >>

\* the case is loaded and its snapshot tables are built; a contingency of the
\* workbook is about to be set up
InitSwitch ==
    /\ pc = "setup"
    /\ err = NoError
    /\ case_i = 1
    /\ adjust_reactive_comp = NoSearch
    /\ adjust_reactive = FALSE
    /\ test_target_bus = FALSE
    /\ target_shunts = FALSE
    /\ \E name \in {"Outage-A", bc} : contingency_names = << name >>
    /\ idx = 1
    /\ sw = 0
    /\ success = << >>
    /\ busbars_to_ignore = {}
    /\ setup_correctly = FALSE
    /\ convergent_v_step = FALSE
    /\ convergent_v_steady = FALSE
    /\ applied = {}
    /\ lf_state = "loaded"
    /\ bus_v = BaseProfile
    /\ df_voltage_step = (bc :> BaseProfile)
    /\ df_voltage_steady = (bc :> BaseProfile)
    /\ df_state = << >>
    /\ df_status = [kind \in Range(SwitchKinds) |-> ("STATUS" :> BaseNet[kind]) @@ (bc :> BaseNet[kind])]
    /\ df_loading = [t \in LoadingTables |-> << >>]
    /\ convergent_load_flow = FALSE
    /\ islanded_buses = {}
    /\ test_result = "none"
    /\ NoLocals
    /\ phase_log = << >>
    /\ contingency_convergence = << >>
    /\ nominal_kv = nominal
    /\ workbook = << >>
    /\ ComplianceStart
    /\ data_set = "none"
    /\ ierr = << >>
    /\ net = BaseNet
    /\ switching \in Switchings
    /\ restore = FALSE
    /\ commands = << >>

\* psse.py 1407-1413: nothing is switched for the contingency named BASE_CASE,
\* whatever restore is
SkipBaseCase ==
    /\ pc = "setup"
    /\ cur = bc
    /\ setup_correctly' = TRUE
    /\ pc' = IF restore THEN "restored" ELSE "set_up"
    /\ UNCHANGED << err, nonSwitchVars, df_loading, switchVars, sw, success, df_voltage_step, df_voltage_steady,
                    df_status, phase_log >>

\* a set-up that leaves its loops at the first switch command the solver rejects
ApplyRow_stops_at_failure ==
    /\ pc = "setup"
    /\ cur # bc
    /\ ~restore
    /\ sw < Len(switching)
    /\ \E ok \in SwitchResults(switching[sw + 1]) :
          /\ net' = switch(net, switching[sw + 1], switching[sw + 1].status, ok)
          /\ success' = Append(success, ok)
          /\ sw' = IF ok THEN sw + 1 ELSE Len(switching)
    /\ UNCHANGED << pc, err, nonSwitchVars, df_loading, switching, restore, commands, setup_correctly, df_voltage_step,
                    df_voltage_steady, df_status, phase_log >>

\* psse.py 1416-1438 with restore=False: the next row is switched to the status it names
ApplyRow ==
    /\ pc = "setup"
    /\ cur # bc
    /\ ~restore
    /\ sw < Len(switching)
    /\ \E ok \in SwitchResults(switching[sw + 1]) :
          /\ net' = switch(net, switching[sw + 1], switching[sw + 1].status, ok)
          /\ success' = Append(success, ok)
    /\ sw' = sw + 1
    /\ UNCHANGED << pc, err, nonSwitchVars, df_loading, switching, restore, commands, setup_correctly, df_voltage_step,
                    df_voltage_steady, df_status, phase_log >>

\* psse.py 1442-1455: after the last row every snapshot table gets the column
\* of the contingency, or a read of the solver fails
ApplyUpdate ==
    /\ pc = "setup"
    /\ cur # bc
    /\ ~restore
    /\ sw = Len(switching)
    /\ \/ /\ df_status' = [kind \in Range(SwitchKinds) |-> SetCol(df_status[kind], cur, net[kind])]
          /\ df_loading' = [t \in LoadingTables |->
                              IF t \in SetupLoadingTables
                              THEN SetCol(df_loading[t], cur, lf_state) ELSE df_loading[t]]
          /\ setup_correctly' = AllTrue(success)
          /\ pc' = "set_up"
          /\ UNCHANGED << err, nonSwitchVars, switchVars, sw, success, df_voltage_step,
                          df_voltage_steady, phase_log >>
       \/ \E kind \in ReadErrors : RaiseOnly(kind)

\* test_psse.py 243: setup_contingency is called again with restore=True
BeginRestore ==
    /\ pc = "set_up"
    /\ restore' = TRUE
    /\ sw' = 0
    /\ success' = << >>
    /\ pc' = "setup"
    /\ UNCHANGED << err, nonSwitchVars, df_loading, net, switching, commands, setup_correctly, df_voltage_step,
                    df_voltage_steady, df_status, phase_log >>

\* psse.py 1416-1438 with restore=True: the next row is switched to the status
\* its element has in the column STATUS; the look-up raises for an element the
\* snapshot does not hold
RestoreRow ==
    /\ pc = "setup"
    /\ cur # bc
    /\ restore
    /\ sw < Len(switching)
    /\ IF InSnapshot(switching[sw + 1])
       THEN /\ \E ok \in SwitchResults(switching[sw + 1]) :
                  /\ net' = switch(net, switching[sw + 1], OriginalStatus(switching[sw + 1]), ok)
                  /\ success' = Append(success, ok)
            /\ sw' = sw + 1
            /\ UNCHANGED << pc, err, nonSwitchVars, df_loading, switching, restore, commands, setup_correctly,
                            df_voltage_step, df_voltage_steady, df_status, phase_log >>
       ELSE RaiseOnly(IF switching[sw + 1].kind = "bus" THEN IntError ELSE ItemError)

\* a restore that ends as a set-up does, with the results of its switch commands
RestoreEnd_all_success ==
    /\ pc = "setup"
    /\ cur # bc
    /\ restore
    /\ sw = Len(switching)
    /\ setup_correctly' = AllTrue(success)
    /\ pc' = "restored"
    /\ UNCHANGED << err, nonSwitchVars, df_loading, switchVars, sw, success, df_voltage_step, df_voltage_steady,
                    df_status, phase_log >>

\* psse.py 1440-1441: after the last row of a restore no table is updated
RestoreEnd ==
    /\ pc = "setup"
    /\ cur # bc
    /\ restore
    /\ sw = Len(switching)
    /\ setup_correctly' = FALSE
    /\ pc' = "restored"
    /\ UNCHANGED << err, nonSwitchVars, df_loading, switchVars, sw, success, df_voltage_step, df_voltage_steady,
                    df_status, phase_log >>

\* Main.py 212-214: the case is loaded again, which undoes every switching
ReloadCase ==
    /\ pc = "set_up"
    /\ \/ /\ net' = BaseNet
          /\ pc' = "reloaded"
          /\ UNCHANGED << err, nonSwitchVars, df_loading, switching, restore, commands, sw, success, setup_correctly,
                          df_voltage_step, df_voltage_steady, df_status, phase_log >>
       \/ RaiseOnly(LoadError)

\* psse.py 1457-1500: test_contingency is called for the restored contingency;
\* it solves only a contingency that is set up
TestRestored ==
    /\ pc = "restored"
    /\ IF setup_correctly
       THEN /\ phase_log' = Append(phase_log, "locked")
            /\ pc' = "solving"
            /\ UNCHANGED << df_voltage_step, df_voltage_steady, test_result >>
       ELSE /\ df_voltage_steady' = update_voltages(df_voltage_steady, cur, TRUE, bus_v)
            /\ df_voltage_step' = update_voltages(df_voltage_step, cur, TRUE, bus_v)
            /\ test_result' = "False"
            /\ pc' = "tested"
            /\ UNCHANGED phase_log
    /\ UNCHANGED << err, configVars, complianceVars, updateVars, switchVars, idx, sw, success, contVars,
                    solverVars, df_state, df_status, df_loading, convergent_load_flow, islanded_buses,
                    searchVars, contingency_convergence >>

\* Main.py 207 and psse.py 1457-1500: test_contingency is called for the
\* contingency as set up; one that is not set up correctly gets np.nan in both
\* voltage tables and is not solved
TestSetUp ==
    /\ pc = "set_up"
    /\ ~restore
    /\ IF setup_correctly
       THEN /\ phase_log' = Append(phase_log, "locked")
            /\ pc' = "test_solving"
            /\ UNCHANGED << df_voltage_step, df_voltage_steady, test_result >>
       ELSE /\ df_voltage_steady' = update_voltages(df_voltage_steady, cur, TRUE, bus_v)
            /\ df_voltage_step' = update_voltages(df_voltage_step, cur, TRUE, bus_v)
            /\ test_result' = "False"
            /\ pc' = "test_skipped"
            /\ UNCHANGED phase_log
    /\ UNCHANGED << err, configVars, complianceVars, updateVars, switchVars, idx, sw, success, contVars,
                    solverVars, df_state, df_status, df_loading, convergent_load_flow, islanded_buses,
                    searchVars, contingency_convergence >>

NextSwitch ==
    \/ TestSetUp
    \/ SkipBaseCase
    \/ ApplyRow
    \/ ApplyUpdate
    \/ BeginRestore
    \/ RestoreRow
    \/ RestoreEnd
    \/ ReloadCase
    \/ TestRestored

SpecSwitch == InitSwitch /\ [][NextSwitch]_vars

----------------------------------------------------------------------------
(* change_state(restore_all=True) of the element tables, row by row *)

\* element tables that offer restore_all with a key of bus numbers and an ID
\* (BranchData for circuits, Tx3Data, ShuntData for fixed and for switched shunts)
RestoreKinds == {"circuit", "tx3", "fixed_shunt", "switched_shunt"}

ShuntKinds == {"fixed_shunt", "switched_shunt"}

\* rows of the snapshot table of each kind, in row order: the bus numbers and
\* the ID of two elements of the case
RestoreRows(kind) ==
    CASE kind = "circuit"        -> << [bus |-> << 1, 2 >>, id |-> "1"], [bus |-> << 1, 2 >>, id |-> "2"] >>
      [] kind = "tx3"            -> << [bus |-> << 1, 2, 3 >>, id |-> "1"], [bus |-> << 1, 2, 3 >>, id |-> "2"] >>
      [] kind = "fixed_shunt"    -> << [bus |-> << 1 >>, id |-> "1"], [bus |-> << 2 >>, id |-> "1"] >>
      [] kind = "switched_shunt" -> << [bus |-> << 1 >>, id |-> "SW1"], [bus |-> << 2 >>, id |-> "SW2"] >>

\* psse.py 268-293, 489-517, 806-832: what identifies an element in a switch
\* command; psspy.switched_shunt_chng_3 is given the bus number only
KeyOf(kind, bus, ckt) == [bus |-> bus, id |-> IF kind = "switched_shunt" THEN "" ELSE ckt]

\* elements of the kind the case holds, by their key
RestoreKeys(kind) == {KeyOf(kind, RestoreRows(kind)[i].bus, RestoreRows(kind)[i].id) : i \in 1..Len(RestoreRows(kind))}

\* column STATUS of the row
RowStatus(kind, row) == df_status[kind]["STATUS"][KeyOf(kind, row.bus, row.id)]

\* psse.py 231-242, 761-775: the switch command restore_all of BranchData and
\* Tx3Data issues for a row; psse.py 455-466: the one ShuntData issues, with
\* `bus = row[self.c.status]`
restore_all_command(kind, row) ==
    IF kind \in ShuntKinds
    THEN [kind |-> kind, key |-> KeyOf(kind, << RowStatus(kind, row) >>, row.id), status |-> RowStatus(kind, row)]
    ELSE [kind |-> kind, key |-> KeyOf(kind, row.bus, row.id), status |-> RowStatus(kind, row)]

\* results the solver can give to the command: an error code for an element
\* the case does not hold
CommandResults(cmd) == IF cmd.key \in DOMAIN net THEN BOOLEAN ELSE {FALSE}

\* the snapshot of one kind is built from the case, then statuses are changed
\* in the case, and restore_all is about to be called for that kind
InitRestoreAll ==
    /\ pc = "restore_all"
    /\ err = NoError
    /\ case_i = 1
    /\ adjust_reactive_comp = NoSearch
    /\ adjust_reactive = FALSE
    /\ test_target_bus = FALSE
    /\ target_shunts = FALSE
    /\ contingency_names = << "Outage-A" >>
    /\ idx = 1
    /\ sw = 0
    /\ success = << >>
    /\ busbars_to_ignore = {}
    /\ setup_correctly = FALSE
    /\ convergent_v_step = FALSE
    /\ convergent_v_steady = FALSE
    /\ applied = {}
    /\ lf_state = "switched"
    /\ bus_v = BaseProfile
    /\ df_voltage_step = (bc :> BaseProfile)
    /\ df_voltage_steady = (bc :> BaseProfile)
    /\ df_state = << >>
    /\ df_loading = [t \in LoadingTables |-> << >>]
    /\ convergent_load_flow = FALSE
    /\ islanded_buses = {}
    /\ test_result = "none"
    /\ NoLocals
    /\ phase_log = << >>
    /\ contingency_convergence = << >>
    /\ nominal_kv = nominal
    /\ workbook = << >>
    /\ ComplianceStart
    /\ ierr = << >>
    /\ switching = << >>
    /\ restore = FALSE
    /\ commands = << >>
    /\ data_set \in RestoreKinds
    /\ \E base \in [RestoreKeys(data_set) -> {0, 1}] :
          df_status = (data_set :> (("STATUS" :> base) @@ (bc :> base)))
    /\ net \in [RestoreKeys(data_set) -> {0, 1}]

\* variables restore_all does not use
nonRestoreAllVars == << err, configVars, complianceVars, data_set, ierr, switching, restore, idx,
                       contVars, solverVars, tableVars, testVars, searchVars, phase_log,
                       contingency_convergence >>

\* one pass of the loop over the rows of the snapshot: the command is sent and
\* its result replaces `success`
RestoreAllRow ==
    /\ pc = "restore_all"
    /\ sw < Len(RestoreRows(data_set))
    /\ LET cmd == restore_all_command(data_set, RestoreRows(data_set)[sw + 1])
       IN  /\ commands' = Append(commands, cmd)
           /\ \E ok \in CommandResults(cmd) :
                 /\ net' = IF ok THEN [net EXCEPT ![cmd.key] = cmd.status] ELSE net
                 /\ success' = << ok >>
    /\ sw' = sw + 1
    /\ UNCHANGED << pc, nonRestoreAllVars >>

\* the loop has passed the last row: change_state returns `success`
RestoreAllReturn ==
    /\ pc = "restore_all"
    /\ sw = Len(RestoreRows(data_set))
    /\ pc' = "restored_all"
    /\ UNCHANGED << nonRestoreAllVars, net, commands, sw, success >>

NextRestoreAll ==
    \/ RestoreAllRow
    \/ RestoreAllReturn

SpecRestoreAll == InitRestoreAll /\ [][NextRestoreAll]_vars

----------------------------------------------------------------------------
(* PsseControl.run_load_flow with the return codes of the solver *)

\* return codes of psspy.fnsl / psspy.fdns (1 to 5 are documented, 6 stands for
\* a code of a later version) and of psspy.solved
LoadFlowCodes == 0..6
SolvedCodes == 0..6

\* bus type codes: in service, disconnected
InServiceState == 1
DisconnectedState == 4

\* exceptions of run_load_flow and get_islanded_busbars
UnknownError == [type |-> "SyntaxError", msg |-> "UNKNOWN ERROR"]
NoBusesError == [type |-> "IOError", msg |-> "There are no in-service buses remaining after taking this contingency"]
LoadFlowErrors == {ScriptError, ConvertedError, UnknownError}

\* BusData(flag=1).df_state: the buses in service
InService(n) == {b \in DOMAIN n["bus"] : n["bus"][b] # DisconnectedState}

\* psspy.island: the buses of islands without a swing bus are disconnected
island(n, islands) == [n EXCEPT !["bus"] = [b \in DOMAIN n["bus"] |-> IF b \in islands THEN DisconnectedState ELSE @[b]]]

\* psse.py 1795-1825: the buses that were in service before psspy.island and
\* are not after it
get_islanded_busbars(before, after) == InService(before) \ InService(after)

\* psse.py 1770-1775 without the branch for codes the script does not know:
\* they go on to the convergence check
load_flow_result_unknown_code_checked(code, solved, before, after) ==
    IF code = 1 \/ code = 5 THEN [raised |-> ScriptError, convergent |-> FALSE, islanded |-> {}]
    ELSE IF code = 2 THEN [raised |-> ConvertedError, convergent |-> FALSE, islanded |-> {}]
    ELSE IF code = 3 \/ code = 4
         THEN IF InService(after) = {}
              THEN [raised |-> NoBusesError, convergent |-> FALSE, islanded |-> {}]
              ELSE [raised |-> NoError, convergent |-> FALSE, islanded |-> get_islanded_busbars(before, after)]
    ELSE [raised |-> NoError, convergent |-> (solved = 0), islanded |-> {}]

\* psse.py 1754-1793: what run_load_flow raises or returns for the code of the
\* solve, the code of psspy.solved and the network before and after psspy.island
load_flow_result(code, solved, before, after) ==
    IF code = 1 \/ code = 5 THEN [raised |-> ScriptError, convergent |-> FALSE, islanded |-> {}]
    ELSE IF code = 2 THEN [raised |-> ConvertedError, convergent |-> FALSE, islanded |-> {}]
    ELSE IF code = 3 \/ code = 4
         THEN IF InService(after) = {}
              THEN [raised |-> NoBusesError, convergent |-> FALSE, islanded |-> {}]
              ELSE [raised |-> NoError, convergent |-> FALSE, islanded |-> get_islanded_busbars(before, after)]
    ELSE IF code > 0 THEN [raised |-> UnknownError, convergent |-> FALSE, islanded |-> {}]
    ELSE [raised |-> NoError, convergent |-> (solved = 0), islanded |-> {}]

\* variables run_load_flow does not use
nonLoadFlowVars == << configVars, complianceVars, data_set, switching, restore, commands, idx, sw, success,
                     contVars, applied, tableVars, test_result, searchVars, contingency_convergence >>

\* a case is loaded, some of its buses may be disconnected
InitLoadFlow ==
    /\ pc = "load_flow"
    /\ err = NoError
    /\ case_i = 1
    /\ adjust_reactive_comp = NoSearch
    /\ adjust_reactive = FALSE
    /\ test_target_bus = FALSE
    /\ target_shunts = FALSE
    /\ contingency_names = << "Outage-A" >>
    /\ idx = 1
    /\ sw = 0
    /\ success = << >>
    /\ busbars_to_ignore = {}
    /\ setup_correctly = TRUE
    /\ convergent_v_step = FALSE
    /\ convergent_v_steady = FALSE
    /\ applied = {}
    /\ lf_state = "loaded"
    /\ bus_v = BaseProfile
    /\ df_voltage_step = (bc :> BaseProfile)
    /\ df_voltage_steady = (bc :> BaseProfile)
    /\ df_state = << >>
    /\ df_status = [t \in StatusTables |-> << >>]
    /\ df_loading = [t \in LoadingTables |-> << >>]
    /\ convergent_load_flow = FALSE
    /\ islanded_buses = {}
    /\ test_result = "none"
    /\ NoLocals
    /\ phase_log = << >>
    /\ contingency_convergence = << >>
    /\ nominal_kv = nominal
    /\ workbook = << >>
    /\ ComplianceStart
    /\ data_set = "none"
    /\ ierr = << >>
    /\ net \in {[bus |-> states] : states \in [Buses -> {InServiceState, DisconnectedState}]}
    /\ switching = << >>
    /\ restore = FALSE
    /\ commands = << >>

\* psse.py 1712-1793: one call of run_load_flow. The solve returns its code;
\* for code 0 psspy.solved is asked, for codes 3 and 4 psspy.island
\* disconnects the buses the solver found islanded
RunLoadFlow ==
    /\ pc = "load_flow"
    /\ \E flat_start, lock_taps \in BOOLEAN, code \in LoadFlowCodes, solved \in SolvedCodes,
          islands \in SUBSET InService(net), read \in BOOLEAN, v \in SolverProfiles :
          LET after == IF code \in {3, 4} THEN island(net, islands) ELSE net
              \* psse.py 1819: the read of the buses left in service may fail
              result == IF code \in {3, 4} /\ ~read
                        THEN [raised |-> BusReadError, convergent |-> FALSE, islanded |-> {}]
                        ELSE load_flow_result(code, solved, net, after)
          IN  /\ phase_log' = << SolveCall(flat_start, lock_taps) >>
              /\ ierr' = IF code \in {3, 4}
                         THEN ("load_flow" :> code) @@ ("island" :> IF InService(after) = {} THEN 0 - 1 ELSE 0)
                         ELSE IF code = 0 THEN ("load_flow" :> code) @@ ("solved" :> solved)
                         ELSE ("load_flow" :> code)
              /\ net' = after
              /\ bus_v' = v
              /\ lf_state' = IF result.raised = NoError /\ result.convergent THEN "conv" ELSE "nonconv"
              /\ err' = result.raised
              /\ convergent_load_flow' = result.convergent
              /\ islanded_buses' = result.islanded
              /\ pc' = IF result.raised = NoError THEN "returned" ELSE "aborted"
    /\ UNCHANGED nonLoadFlowVars

\* test_psse.py 97-118: run_load_flow is called again on the same case
CallAgain ==
    /\ pc \in {"returned", "aborted"}
    /\ pc' = "load_flow"
    /\ err' = NoError
    /\ UNCHANGED << nonLoadFlowVars, ierr, net, lf_state, bus_v, convergent_load_flow,
                    islanded_buses, phase_log >>

NextLoadFlow ==
    \/ RunLoadFlow
    \/ CallAgain

SpecLoadFlow == InitLoadFlow /\ [][NextLoadFlow]_vars

----------------------------------------------------------------------------
(* The free-tap solves of test_contingency and of the search, psse.py
   1515-1551 and 1611-1629, with the return codes of the solver and the buses
   psspy.island disconnects *)

\* search iterations followed here
MaxFreeTapIterations == 2

\* variables the free-tap solves leave alone
nonFreeTapVars == << configVars, complianceVars, updateVars, switching, restore, commands, idx, sw,
                    success, busbars_to_ignore, setup_correctly, convergent_v_step, applied,
                    df_voltage_step, df_status, df_loading, test_result, targets_log,
                    within_limits, target_bus, target_voltage, target_q, phase_log,
                    contingency_convergence >>

\* the step-change solve of a contingency is over and the first free-tap solve
\* is about to run; some bus is in service
InitFreeTap ==
    /\ pc = "free"
    /\ err = NoError
    /\ case_i = 1
    /\ adjust_reactive \in BOOLEAN
    /\ adjust_reactive_comp = [i \in 1..NumCases |-> adjust_reactive]
    /\ test_target_bus = FALSE
    /\ target_shunts = FALSE
    /\ contingency_names = << "Outage-A" >>
    /\ idx = 1
    /\ sw = 0
    /\ success = << >>
    /\ busbars_to_ignore = {}
    /\ setup_correctly = TRUE
    /\ convergent_v_step = TRUE
    /\ convergent_v_steady = FALSE
    /\ applied = {"Outage-A"}
    /\ lf_state = "conv"
    /\ bus_v = BaseProfile
    /\ df_voltage_step = (bc :> BaseProfile) @@ ("Outage-A" :> BaseProfile)
    /\ df_voltage_steady = (bc :> BaseProfile)
    /\ df_status = [t \in StatusTables |-> << >>]
    /\ df_loading = [t \in LoadingTables |-> << >>]
    /\ convergent_load_flow = TRUE
    /\ islanded_buses = {}
    /\ test_result = "none"
    /\ NoLocals
    /\ phase_log = << >>
    /\ contingency_convergence = << >>
    /\ nominal_kv = nominal
    /\ workbook = << >>
    /\ ComplianceStart
    /\ data_set = "none"
    /\ ierr = << >>
    /\ net \in {[bus |-> states] : states \in [Buses -> {InServiceState, DisconnectedState}]}
    /\ InService(net) # {}
    /\ df_state = (bc :> [b \in Buses |-> InServiceState]) @@ ("Outage-A" :> net["bus"])
    /\ switching = << >>
    /\ restore = FALSE
    /\ commands = << >>

\* a free-tap call that treats islanded buses as the locked-tap solve does: they
\* are written to the bus states
FreeTapCall_writes_islands(flat_start, next_conv, next_nonconv, keep) ==
    \E code \in LoadFlowCodes, solved \in {0, 1}, islands \in SUBSET InService(net),
       read \in BOOLEAN, v \in LocalProfiles :
       LET after == IF code \in {3, 4} THEN island(net, islands) ELSE net
           result == IF code \in {3, 4} /\ ~read
                     THEN [raised |-> BusReadError, convergent |-> FALSE, islanded |-> {}]
                     ELSE load_flow_result(code, solved, net, after)
       IN  /\ net' = after
           /\ bus_v' = v
           /\ lf_state' = IF result.raised = NoError /\ result.convergent THEN "conv" ELSE "nonconv"
           /\ islanded_buses' = result.islanded
           /\ err' = result.raised
           /\ df_state' = IF result.islanded # {}
                          THEN SetCol(df_state, cur, [b \in Buses |-> IF b \in result.islanded
                                                                    THEN DisconnectedState ELSE df_state[cur][b]])
                          ELSE df_state
           /\ convergent_load_flow' = IF keep /\ result.raised = NoError
                                      THEN result.convergent ELSE convergent_load_flow
           /\ pc' = IF result.raised # NoError THEN "aborted"
                    ELSE IF result.convergent THEN next_conv ELSE next_nonconv

\* psse.py 1517, 1520, 1526, 1613, 1615, 1617: one call of
\* run_load_flow(lock_taps=False). The solver returns its code; for codes 3
\* and 4 psspy.island disconnects the islanded buses and the frame of
\* get_islanded_busbars is returned, which the caller binds to `_`
\* (islanded_buses holds it here); keep: the first element of the result is
\* bound to convergent_load_flow
FreeTapCall(flat_start, next_conv, next_nonconv, keep) ==
    \E code \in LoadFlowCodes, solved \in {0, 1}, islands \in SUBSET InService(net),
       read \in BOOLEAN, v \in LocalProfiles :
       LET after == IF code \in {3, 4} THEN island(net, islands) ELSE net
           result == IF code \in {3, 4} /\ ~read
                     THEN [raised |-> BusReadError, convergent |-> FALSE, islanded |-> {}]
                     ELSE load_flow_result(code, solved, net, after)
       IN  /\ net' = after
           /\ bus_v' = v
           /\ lf_state' = IF result.raised = NoError /\ result.convergent THEN "conv" ELSE "nonconv"
           /\ islanded_buses' = result.islanded
           /\ err' = result.raised
           /\ df_state' = df_state
           /\ convergent_load_flow' = IF keep /\ result.raised = NoError
                                      THEN result.convergent ELSE convergent_load_flow
           /\ pc' = IF result.raised # NoError THEN "aborted"
                    ELSE IF result.convergent THEN next_conv ELSE next_nonconv

\* psse.py 1517-1518: the first free-tap solve
TapFree ==
    /\ pc = "free"
    /\ FreeTapCall(FALSE, "decide", "flat", TRUE)
    /\ UNCHANGED << nonFreeTapVars, iter_count, convergent_v_steady, df_voltage_steady >>

\* psse.py 1520-1524: the flat-start retry
TapFlat ==
    /\ pc = "flat"
    /\ FreeTapCall(TRUE, "warm", "decide", TRUE)
    /\ UNCHANGED << nonFreeTapVars, iter_count, convergent_v_steady, df_voltage_steady >>

\* psse.py 1526: the solve resumed from the flat-start result
TapWarm ==
    /\ pc = "warm"
    /\ FreeTapCall(FALSE, "decide", "decide", TRUE)
    /\ UNCHANGED << nonFreeTapVars, iter_count, convergent_v_steady, df_voltage_steady >>

\* psse.py 1528-1551: the sentinel is recorded, or the search is entered
\* (check_within_limits reads the voltages), or the results are recorded
TapDecide ==
    /\ pc = "decide"
    /\ IF ~convergent_load_flow /\ ~adjust_reactive
       THEN /\ convergent_v_steady' = FALSE
            /\ df_voltage_steady' = update_voltages(df_voltage_steady, cur, TRUE, bus_v)
            /\ pc' = "reload"
       ELSE IF adjust_reactive
            THEN /\ convergent_v_steady' = convergent_v_steady
                 /\ df_voltage_steady' = update_voltages(df_voltage_steady, cur, FALSE, bus_v)
                 /\ pc' = "search_loop"
            ELSE /\ convergent_v_steady' = TRUE
                 /\ df_voltage_steady' = update_voltages(df_voltage_steady, cur, FALSE, bus_v)
                 /\ pc' = "reload"
    /\ UNCHANGED << nonFreeTapVars, err, net, solverVars, df_state, convergent_load_flow, islanded_buses,
                    iter_count >>

\* psse.py 1588-1613 and 1629: the first solve of a search iteration; after
\* convergence check_within_limits reads the voltages
TapSearchFree ==
    /\ pc = "search_loop"
    /\ iter_count < MaxFreeTapIterations
    /\ iter_count' = iter_count + 1
    /\ FreeTapCall(FALSE, "search_loop", "search_flat", FALSE)
    /\ df_voltage_steady' = IF pc' = "search_loop"
                            THEN update_voltages(df_voltage_steady, cur, FALSE, bus_v')
                            ELSE df_voltage_steady
    /\ UNCHANGED << nonFreeTapVars, convergent_v_steady >>

\* psse.py 1615-1628: the flat-start retry of the iteration; without
\* convergence the iteration ends (continue)
TapSearchFlat ==
    /\ pc = "search_flat"
    /\ FreeTapCall(TRUE, "search_resume", "search_loop", FALSE)
    /\ UNCHANGED << nonFreeTapVars, iter_count, convergent_v_steady, df_voltage_steady >>

\* psse.py 1617 and 1629: the solve resumed from the flat-start result, whose
\* result is dropped, then check_within_limits
TapSearchResume ==
    /\ pc = "search_resume"
    /\ FreeTapCall(FALSE, "search_loop", "search_loop", FALSE)
    /\ df_voltage_steady' = IF pc' = "search_loop"
                            THEN update_voltages(df_voltage_steady, cur, FALSE, bus_v')
                            ELSE df_voltage_steady
    /\ UNCHANGED << nonFreeTapVars, iter_count, convergent_v_steady >>

\* psse.py 1588, 1637 and 1544-1546: the loop condition fails (the voltages are
\* within limits or a bound of the targets is reached) and the results are recorded
TapSearchReturn ==
    /\ pc = "search_loop"
    /\ convergent_v_steady' = TRUE
    /\ df_voltage_steady' = update_voltages(df_voltage_steady, cur, FALSE, bus_v)
    /\ pc' = "reload"
    /\ UNCHANGED << nonFreeTapVars, err, net, solverVars, df_state, convergent_load_flow, islanded_buses,
                    iter_count >>

NextFreeTap ==
    \/ TapFree
    \/ TapFlat
    \/ TapWarm
    \/ TapDecide
    \/ TapSearchFree
    \/ TapSearchFlat
    \/ TapSearchResume
    \/ TapSearchReturn

SpecFreeTap == InitFreeTap /\ [][NextFreeTap]_vars

----------------------------------------------------------------------------
(* BusData.check_within_limits on buses of any nominal voltage: the entry of
   check_voltage_adjust_machines after the steady-state solve *)

\* nominal voltages of the buses studied here, one of each band
TargetNominals == {110, 220, 275, 400}

\* voltages the solver may return for a bus (thousandths of pu)
TargetVoltages == {890, 1000, 1092, 1095}

\* psse.py 1154-1159 with the limits of the frame: every bus that is not
\* ignored is at or below its UPPER_LIMIT
WithinLimitsOf(col, limits, ignore) ==
    \A b \in SubsetBuses(ignore) : LeqLimit(col[b], limits[b].upper_limit)

\* variables check_within_limits does not use
nonTargetVars == << case_i, adjust_reactive_comp, adjust_reactive, contingency_names, target_shunts,
                   updateVars, switchVars, idx, sw, success, contVars, applied, df_voltage_step,
                   df_state, df_status, df_loading, testVars, iter_count, targets_log,
                   target_voltage, target_q, contingency_convergence, workbook, circuit_switching,
                   shunt_switching, index_rows, compliant_row, v_step_lbl_row, compliance,
                   contingency_compliance >>

\* a contingency is set up and solved; the search is about to be entered
InitTarget ==
    /\ pc = "decide"
    /\ err = NoError
    /\ case_i = 1
    /\ adjust_reactive_comp = SearchFirstCase
    /\ adjust_reactive = TRUE
    /\ test_target_bus \in BOOLEAN
    /\ target_shunts = FALSE
    /\ contingency_names = << "Outage-A" >>
    /\ idx = 1
    /\ sw = 0
    /\ success = << >>
    /\ busbars_to_ignore \in IgnoreLists
    /\ setup_correctly = TRUE
    /\ convergent_v_step = TRUE
    /\ convergent_v_steady = FALSE
    /\ applied = {}
    /\ lf_state = "conv"
    /\ bus_v \in [Buses -> TargetVoltages]
    /\ df_voltage_step = (bc :> BaseProfile)
    /\ df_voltage_steady = (bc :> BaseProfile)
    /\ df_state = << >>
    /\ df_status = [t \in StatusTables |-> << >>]
    /\ df_loading = [t \in LoadingTables |-> << >>]
    /\ convergent_load_flow = TRUE
    /\ islanded_buses = {}
    /\ test_result = "none"
    /\ NoLocals
    /\ phase_log = << >>
    /\ contingency_convergence = << >>
    /\ nominal_kv \in [Buses -> TargetNominals]
    /\ df_limits \in [Buses -> UNION {add_voltage_limits(kv) : kv \in TargetNominals}]
    /\ \A b \in Buses : df_limits[b] \in add_voltage_limits(nominal_kv[b])
    /\ workbook = << >>
    /\ circuit_switching = << >>
    /\ shunt_switching = << >>
    /\ index_rows = [f \in Frames |-> {}]
    /\ compliant_row = [f \in Frames |-> << >>]
    /\ v_step_lbl_row = << >>
    /\ compliance = << >>
    /\ contingency_compliance = << >>
    /\ data_set = "none"
    /\ ierr = << >>
    /\ SwitchStart

\* psse.py 1578-1584: check_within_limits reads the voltages into the column
\* of the contingency and returns the flag and the bus of the largest voltage;
\* the bus is replaced by 0 unless test_target_bus
CheckTarget ==
    /\ pc = "decide"
    /\ df_voltage_steady' = update_voltages(df_voltage_steady, cur, FALSE, bus_v)
    /\ within_limits' = WithinLimitsOf(bus_v, df_limits, busbars_to_ignore)
    /\ target_bus' = IF test_target_bus THEN IdxMax(bus_v, busbars_to_ignore) ELSE 0
    /\ phase_log' = << "check" >>
    /\ pc' = "search_loop"
    /\ UNCHANGED << err, nonTargetVars, test_target_bus, nominal_kv, df_limits, lf_state, bus_v >>

NextTarget ==
    \/ CheckTarget

SpecTarget == InitTarget /\ [][NextTarget]_vars

----------------------------------------------------------------------------
(* Contingency.check_voltage_adjust_machines in every targeting mode *)

\* a contingency is set up and its steady-state solves are over; test_contingency
\* is about to enter the search (psse.py 1539-1551)
InitSearch ==
    /\ pc = "decide"
    /\ err = NoError
    /\ case_i = 1
    /\ adjust_reactive_comp = SearchFirstCase
    /\ adjust_reactive = TRUE
    /\ test_target_bus \in BOOLEAN
    /\ target_shunts \in BOOLEAN
    /\ ~(test_target_bus /\ target_shunts)    \* change_output takes no target bus (psse.py 1603-1604)
    /\ contingency_names = << "Outage-A" >>
    /\ idx = 1
    /\ sw = 0
    /\ success = << >>
    /\ busbars_to_ignore = {}
    /\ setup_correctly = TRUE
    /\ convergent_v_step = TRUE
    /\ convergent_v_steady = FALSE
    /\ applied = {}
    /\ convergent_load_flow = TRUE
    /\ lf_state = "conv"
    /\ bus_v \in SolverProfiles
    /\ df_voltage_step = (bc :> BaseProfile) @@ ("Outage-A" :> BaseProfile)
    /\ df_voltage_steady = (bc :> BaseProfile)
    /\ df_state = (bc :> Broadcast("conv")) @@ ("Outage-A" :> Broadcast("switched"))
    /\ df_status = [t \in StatusTables |-> (bc :> "conv")]
    /\ df_loading = [t \in LoadingTables |-> (bc :> "conv")]
    /\ islanded_buses = {}
    /\ test_result = "none"
    /\ NoLocals
    /\ phase_log = << >>
    /\ contingency_convergence = (bc :> [message |-> convergent, convergence |-> TRUE])
    /\ nominal_kv = nominal
    /\ workbook = << >>
    /\ ComplianceStart
    /\ data_set = "none"
    /\ ierr = << >>
    /\ SwitchStart

NextSearch ==
    \/ SearchEntry
    \/ SearchIterate
    \/ SearchFlat
    \/ SearchResume
    \/ SearchExit

SpecSearch == InitSearch /\ [][NextSearch]_vars

\* the search is one sequential call: each of its statements is executed once
\* control reaches it, and every solver call returns
SpecSearchFair == SpecSearch /\ WF_vars(NextSearch)

----------------------------------------------------------------------------
(* Properties *)

\* the study loop has a current contingency
InLoop == idx >= 1

\* the current contingency has been reported and the next one not yet taken
Reported == pc = "loop" /\ InLoop

\* every row of the column of the current contingency holds np.nan
AllNaN(df) == cur \in DOMAIN df /\ \A b \in Buses : df[cur][b] = NaN

\* every row of the column of the current contingency holds a number
AllNumeric(df) == cur \in DOMAIN df /\ \A b \in Buses : df[cur][b] # NaN

\* C1: the convergence message is a total function of (convergent_v_step,
\* convergent_v_steady): (true,true) 'Convergent', (false,false)
\* 'Non-Convergent', (true,false) 'Non-Convergent Steady State', (false,true)
\* 'Non-Convergent Step Change'; 'ERROR' is never produced; and convergent is
\* true exactly when the message is 'Convergent'. Stated of the function on
\* every pair and of the row main() writes for each processed contingency.
C1_MessageOf(step, steady) ==
    IF step /\ steady THEN "Convergent"
    ELSE IF ~step /\ ~steady THEN "Non-Convergent"
    ELSE IF step /\ ~steady THEN "Non-Convergent Steady State"
    ELSE "Non-Convergent Step Change"

C1_ConvergenceMessage ==
    /\ \A step \in BOOLEAN, steady \in BOOLEAN :
          /\ convergence_message(step, steady) = C1_MessageOf(step, steady)
          /\ convergence_message(step, steady) # "ERROR"
          /\ convergent_prop(step, steady) <=> (convergence_message(step, steady) = "Convergent")
    /\ Reported =>
          /\ contingency_convergence[cur].message =
                C1_MessageOf(convergent_v_step, convergent_v_steady)
          /\ contingency_convergence[cur].convergence <=>
                (contingency_convergence[cur].message = "Convergent")
    /\ \A n \in DOMAIN contingency_convergence :
          /\ contingency_convergence[n].message # "ERROR"
          /\ contingency_convergence[n].convergence <=>
                (contingency_convergence[n].message = "Convergent")

\* C1 witness: a contingency has been reported with the step-change solve
\* non-convergent and the steady-state solve convergent
C1_Witness ==
    /\ Reported
    /\ ~convergent_v_step /\ convergent_v_steady
    /\ contingency_convergence[cur].message = "Non-Convergent Step Change"

\* C2: if a switching action of a contingency failed, setup_contingency leaves
\* it not set up correctly, and test_contingency returns False with np.nan in
\* every row of its step-change and steady-state columns, without a load flow
\* and with both convergence flags false.
C2_SetupFailureInv ==
    (pc \in {"reload", "loop"} /\ InLoop /\ ~setup_correctly) =>
        /\ test_result = "False"
        /\ AllNaN(df_voltage_step)
        /\ AllNaN(df_voltage_steady)
        /\ phase_log = << >>
        /\ ~convergent_v_step
        /\ ~convergent_v_steady

C2_SetupFailureAct ==
    (pc = "setup" /\ pc' = "test") =>
        /\ (\E i \in 1..Len(success) : ~success[i]) => ~setup_correctly'
        /\ ~setup_correctly' => (\E i \in 1..Len(success) : ~success[i])

C2_SetupFailure == [] C2_SetupFailureInv /\ [][C2_SetupFailureAct]_vars

\* C2 witness: test_contingency has returned for a contingency whose setup failed
C2_Witness ==
    /\ pc = "reload" /\ InLoop
    /\ ~setup_correctly
    /\ test_result = "False"
    /\ AllNaN(df_voltage_step)

\* C3: the base case is reloaded after test_contingency returns and before any
\* switching action of the next contingency, whatever the outcome: switching of
\* two contingencies never acts on the same loaded network state.
C3_ReloadBetweenContingencies ==
    /\ InLoop => applied \subseteq {cur}
    /\ (~InLoop /\ pc \in {"init_lf", "create_data", "import", "loop"}) => applied = {}
    /\ Reported => (applied = {} /\ lf_state = "loaded")
    /\ (pc = "setup" /\ sw = 0) => (applied = {} /\ lf_state \in {"conv", "loaded"})

\* C3 witness: the second contingency is switched on a network that the first
\* one had switched and that carries the switching of the second one only
C3_Witness ==
    /\ idx = 2
    /\ applied = {contingency_names[2]}
    /\ df_status["circuit"][contingency_names[1]] = "switched"

\* C4 (as claimed): the search loop never executes more than 100 iterations.
C4_AtMostMaxIterations == iter_count <= max_iterations

\* C5 (as claimed): when the search ends with within_limits true, every bus
\* outside the exclusion list has a steady-state voltage inside its band, not
\* above the upper and not below the lower limit.
C5_WithinBandOnSuccess ==
    (pc = "search_done" /\ within_limits) =>
        \A b \in Buses \ busbars_to_ignore :
            /\ LeqLimit(df_voltage_steady[cur][b], upper_limit(b))
            /\ GeqLimit(df_voltage_steady[cur][b], lower_limit(b))

\* the free-tap solves test_contingency has run before its decision
FreeCalls == SelectSeq(phase_log, LAMBDA e : e \in {"fnsl_free", "fdns_free"})

\* the locked-tap solves test_contingency has run
LockedCalls == SelectSeq(phase_log, LAMBDA e : e \in {"fnsl_locked", "fdns_locked"})

C6_RetryInv ==
    pc = "decide" =>
        /\ FreeCalls \in { << "fnsl_free" >>,
                           << "fnsl_free", "fdns_free" >>,
                           << "fnsl_free", "fdns_free", "fnsl_free" >> }
        /\ Len(FreeCalls) <= 3
        /\ convergent_load_flow <=> (lf_state = "conv")
        /\ Len(FreeCalls) = 1 => convergent_load_flow
        /\ Len(FreeCalls) = 2 => ~convergent_load_flow

C6_RetryAct ==
    /\ (pc = "free" /\ pc' # "aborted") =>
          \/ pc' = "decide" /\ lf_state' = "conv"
          \/ pc' = "flat" /\ lf_state' = "nonconv"
    /\ (pc = "flat" /\ pc' # "aborted") =>
          \/ pc' = "warm" /\ lf_state' = "conv"
          \/ pc' = "decide" /\ lf_state' = "nonconv"
    /\ (pc = "warm" /\ pc' # "aborted") => pc' = "decide"

C7_NothingRecorded ==
    (pc = "reload" /\ InLoop /\ cur # bc /\ setup_correctly /\ ~adjust_reactive
        /\ ~convergent_load_flow) =>
        /\ ~convergent_v_steady
        /\ AllNaN(df_voltage_steady)
        /\ \A t \in LoadingTables : cur \notin DOMAIN df_loading[t]

\* C8: with compensation search enabled every set-up contingency enters the
\* search whether or not the plain solve converged, and once the search has
\* returned convergent_v_steady is true and the final voltages, the loadings
\* and the machine reactive output are those of the solver's last state.
C8_SearchInv ==
    (pc = "reload" /\ InLoop /\ setup_correctly /\ adjust_reactive) =>
        /\ convergent_v_steady
        /\ cur \in DOMAIN df_voltage_steady /\ df_voltage_steady[cur] = bus_v
        /\ \A t \in LoadingTables :
              cur \in DOMAIN df_loading[t] /\ df_loading[t][cur] = lf_state
        /\ lf_state \in {"conv", "nonconv"}

C8_SearchAct ==
    /\ (pc = "decide" /\ adjust_reactive /\ pc' # "aborted") => pc' = "search_loop"
    /\ (pc = "search_done" /\ pc' # "aborted") => (pc' = "reload" /\ convergent_v_steady')

C8_SearchAlwaysRecords == [] C8_SearchInv /\ [][C8_SearchAct]_vars

\* C8 witness: the search was entered after a non-convergent plain solve, did
\* not restore the limits, ended on a non-convergent solve, and the contingency
\* is recorded as steady-state convergent
C8_Witness ==
    /\ pc = "reload" /\ InLoop /\ adjust_reactive
    /\ ~convergent_load_flow
    /\ iter_count > 0 /\ ~within_limits
    /\ lf_state = "nonconv"
    /\ convergent_v_steady
    /\ df_loading["machine"][cur] = "nonconv"

\* positions of test_contingency after the locked-tap phase
AfterStepPhase ==
    pc \in {"free", "flat", "warm", "decide", "search_loop", "search_flat",
            "search_resume", "search_done", "reload"} /\ InLoop /\ setup_correctly

\* C9: after the locked-tap phase of a set-up contingency, convergent_v_step is
\* true and the step-change column holds the solved voltages if the final
\* locked-tap solve converged, else the flag is false and the column holds
\* np.nan in every row; in both cases the free-tap solve comes next.
C9_StepInv ==
    /\ AfterStepPhase =>
          IF convergent_v_step THEN AllNumeric(df_voltage_step)
          ELSE AllNaN(df_voltage_step)
    /\ pc = "record_step" => (convergent_load_flow <=> (lf_state = "conv"))

C9_StepAct ==
    /\ (pc = "record_step" /\ pc' # "aborted") =>
          /\ pc' = "free"
          /\ convergent_v_step' <=> (lf_state = "conv")
          /\ df_voltage_step'[cur] =
                IF lf_state = "conv" THEN bus_v ELSE [b \in Buses |-> NaN]
    /\ (pc = "free" /\ pc' # "aborted") =>
          phase_log' = Append(phase_log, "fnsl_free")

C9_StepChangeRecorded == [] C9_StepInv /\ [][C9_StepAct]_vars

\* C9 witness: the locked-tap solve did not converge, the column holds np.nan
\* and the free-tap solve has run
C9_Witness ==
    /\ pc = "decide" /\ InLoop /\ setup_correctly
    /\ ~convergent_v_step
    /\ AllNaN(df_voltage_step)
    /\ FreeCalls # << >>

\* C10: islanded buses on the first locked-tap solve make the solve run exactly
\* once more; islanded buses on that second solve raise a fatal error, with no
\* voltage column and no convergence row recorded for the contingency; at most
\* two locked-tap solves run per contingency.
C10_IslandInv ==
    /\ Len(LockedCalls) <= 2
    /\ pc = "locked_retry" => (islanded_buses # {} /\ Len(LockedCalls) = 1)
    /\ pc # "locked_retry" => islanded_buses = {}
    /\ pc = "record_step" => Len(LockedCalls) \in {1, 2}
    /\ err = StillIslanded =>
          /\ pc \in {"aborted", "uncaught"}
          /\ cur # bc =>
                /\ cur \notin DOMAIN df_voltage_step
                /\ cur \notin DOMAIN df_voltage_steady
                /\ cur \notin DOMAIN contingency_convergence

C10_IslandAct ==
    /\ (pc = "test" /\ setup_correctly /\ pc' # "aborted") =>
          /\ Len(LockedCalls') = 1
          /\ IF islanded_buses' # {} THEN pc' = "locked_retry" ELSE pc' = "record_step"
    /\ pc = "locked_retry" =>
          \/ pc' = "locked_retry" /\ UNCHANGED vars
          \/ pc' = "record_step" /\ Len(LockedCalls') = 2 /\ islanded_buses' = {}
          \/ /\ pc' = "aborted" /\ err' \in SolverErrors \cup {StillIslanded}
             /\ UNCHANGED << df_voltage_step, df_voltage_steady, contingency_convergence >>

C10_IslandRetryOnce == [] C10_IslandInv /\ [][C10_IslandAct]_vars

\* C10 witness: the second locked-tap solve reported islanded buses again
C10_Witness ==
    /\ err = StillIslanded
    /\ pc = "aborted"
    /\ cur # bc
    /\ df_state[cur][2] = "in_service"

\* the columns of the base case and of the contingencies processed before the
\* one of the next state are the same in df and in dfn
ColumnsKept(df, dfn) ==
    /\ bc \in DOMAIN df => (bc \in DOMAIN dfn /\ dfn[bc] = df[bc])
    /\ \A j \in 1..(idx' - 1) :
          contingency_names[j] \in DOMAIN df =>
             (contingency_names[j] \in DOMAIN dfn /\ dfn[contingency_names[j]] = df[contingency_names[j]])

\* C11 (as claimed): within a network case, no step changes the base-case
\* column or the column of an earlier contingency of any snapshot table,
\* whatever names the contingency input supplies.
C11_BaseColumnImmutable ==
    [][ case_i' = case_i =>
          /\ ColumnsKept(df_voltage_step, df_voltage_step')
          /\ ColumnsKept(df_voltage_steady, df_voltage_steady')
          /\ ColumnsKept(df_state, df_state')
          /\ \A t \in StatusTables : ColumnsKept(df_status[t], df_status'[t])
          /\ \A t \in LoadingTables : ColumnsKept(df_loading[t], df_loading'[t]) ]_vars

\* the script has ended: the batch loop is over, or an exception left it
ScriptEnded == pc \in {"batch_end", "uncaught"}

\* C13 (as claimed): every fatal error of a network case is caught by the batch
\* loop, which goes on to the next case, so when the script ends every selected
\* case has been attempted and no exception has left the loop.
C13_EveryCaseAttempted ==
    ScriptEnded => (pc = "batch_end" /\ case_i = NumCases)

\* C20 (as claimed): when the empty contingency input raises ValueError 'Empty
\* Contingencies Workbook', no load-flow solve has been run on the network case.
C20_EmptyWorkbookBeforeSolve ==
    err = EmptyWorkbook =>
        /\ err.type = "ValueError" /\ err.msg = "Empty Contingencies Workbook"
        /\ pc = "aborted"
        /\ lf_state \in {"none", "loaded"}

----------------------------------------------------------------------------
(* Properties of the compliance stage *)

\* the summary of the network case has been built
Summarised == pc = "done" /\ bc \in DOMAIN contingency_compliance

\* C12: before the first contingency is processed every snapshot frame has a
\* base case column, and in the summary the BASE_CASE row is marked convergent
\* and is marked compliant in the column of every compliance data set
C12_BaseCaseCompliant ==
    /\ (pc = "loop" /\ idx = 0) =>
          /\ bc \in DOMAIN df_voltage_step
          /\ bc \in DOMAIN df_voltage_steady
          /\ \A t \in ComplianceLoadingTables : bc \in DOMAIN df_loading[t]
    /\ Summarised =>
          /\ contingency_compliance[bc].convergence = << [message |-> convergent, convergence |-> TRUE] >>
          /\ \A f \in Frames : /\ f \in DOMAIN contingency_compliance[bc].compliance
                                /\ contingency_compliance[bc].compliance[f] = TRUE

\* whole kV values over the range of the configured bands; the edges of the
\* bands are whole numbers, so a nominal voltage between two whole numbers is
\* in the bands of the next whole number
NominalRange == 1..500

\* the limits BusData.update has written for a bus
LimitsOf(b) == << df_limits[b].lower_limit, df_limits[b].upper_limit >>

\* C14: add_voltage_limits gives a 110 kV bus the limits (99/110, 120/110), a
\* 220 kV bus (200/220, 240/220), a 275 kV bus (250/275, 303/275), a 380 kV
\* bus (360/380, 410/380), and no nominal voltage is in two bands (a fact of
\* the configured bands, looked at when the limits have just been written)
C14_VoltageBands ==
    /\ df_limits # << >> =>
          \A b \in Buses :
             /\ nominal_kv[b] = 110 => LimitsOf(b) = << <<99, 110>>, <<120, 110>> >>
             /\ nominal_kv[b] = 220 => LimitsOf(b) = << <<200, 220>>, <<240, 220>> >>
             /\ nominal_kv[b] = 275 => LimitsOf(b) = << <<250, 275>>, <<303, 275>> >>
             /\ nominal_kv[b] = 380 => LimitsOf(b) = << <<360, 380>>, <<410, 380>> >>
    /\ pc = "import" => \A kv \in NominalRange : Cardinality(BandsOf(kv)) <= 1

\* the limits of a 275 kV bus have been written
C14_Witness ==
    /\ pc = "import"
    /\ nominal_kv[1] = 275
    /\ LimitsOf(1) = << <<250, 275>>, <<303, 275>> >>

\* busbars of the snapshot whose nominal voltage is in no band
OutOfBand == { b \in Buses : BandsOf(nominal_kv[b]) = {} }

\* C15: a case with a busbar whose nominal voltage is in no band is stopped
\* with an error when the bus data is created; main() never goes on to the
\* contingencies and the compliance checks with such a busbar
C15_NoBandIsError ==
    OutOfBand # {} =>
        /\ pc \in {"create_data", "aborted"}
        /\ pc = "aborted" => err # NoError
        /\ compliance = << >>

\* the voltage step limit of a contingency by the list it is on (Main.py 222-227)
StepLimitOf(n) == IF n \in Range(shunt_switching) THEN reactor_step_change_limit
                  ELSE cont_step_change_limit

\* |v_contingency - v_base| <= limit at every busbar, for the recorded step change column
StepWithinAtEveryBus(n, limit) ==
    \A b \in Buses : /\ df_voltage_step[n][b] # NaN
                      /\ Abs(df_voltage_step[n][b] - df_voltage_step["PU"][b]) <= limit

\* C16: the step change compliance of a contingency in the summary is true
\* exactly when, at every busbar, the recorded step change voltage is within
\* the limit of its list (0.10 pu circuit switching, 0.03 pu voltage control)
\* of the base case voltage, the limit included
C16_StepInclusive ==
    Summarised =>
        \A n \in Range(contingency_names) :
           contingency_compliance[n].compliance["V Step"] = StepWithinAtEveryBus(n, StepLimitOf(n))

\* how many entries of a list are this name
Occurrences(list, n) == Cardinality({ i \in 1..Len(list) : list[i] = n })

\* C17: every contingency the study loop has taken is exactly once on exactly
\* one of the lists circuit_switching and shunt_switching; it is on
\* shunt_switching exactly when the workbook has no circuit, two winding
\* transformer, three winding transformer or busbar row for it; and the
\* voltage step check is made for it once, with the limit of its list (0.03 pu
\* for shunt_switching, 0.10 pu for circuit_switching)
C17_OneList ==
    /\ \A i \in 1..idx :
          LET n == contingency_names[i] IN
             /\ Occurrences(circuit_switching, n) + Occurrences(shunt_switching, n) = 1
             /\ Occurrences(shunt_switching, n) = 1 <=>
                   \A sheet \in {"circuits", "tx2", "tx3", "busbars"} : sheet \notin workbook[n]
    /\ \A n \in DOMAIN v_step_lbl_row :
          v_step_lbl_row[n] = IF Occurrences(shunt_switching, n) = 1 THEN 30 ELSE 100
    /\ pc \in {"data_sets", "done"} => DOMAIN v_step_lbl_row = Range(contingency_names)

\* a contingency that switches a circuit and a shunt has been checked against 0.10 pu
C17_Witness ==
    /\ pc = "data_sets"
    /\ workbook["Outage-A"] = {"circuits", "switched_shunts"}
    /\ circuit_switching = << "Outage-A" >>
    /\ v_step_lbl_row["Outage-A"] = 100
    /\ v_step_lbl_row["Outage-B"] = 30

\* columns of the summary that come from a loading frame
LoadingColumns == {"Circuit Loading", "2 Winding Loading", "3 Winding Loading"}

\* every element of the frame with a rating above the threshold is loaded below its rating
RatedElementsBelowRating(f, n) ==
    \A e \in Elements :
       df_loading[LoadingFrameOf[f]]["RATEA"][e] > rating_threshold =>
          df_loading[LoadingFrameOf[f]][n][e] < df_loading[LoadingFrameOf[f]]["RATEA"][e]

\* C18: in the circuit, two winding and three winding loading checks alike, an
\* element with a rating at or below the threshold never makes a contingency
\* non-compliant: a contingency whose other elements are all loaded below
\* their rating is compliant
C18_LowRatingIgnored ==
    Summarised =>
        \A n \in Range(contingency_names) : \A f \in LoadingColumns :
           RatedElementsBelowRating(f, n) => contingency_compliance[n].compliance[f] = TRUE

\* C19: the loading compliance of a contingency is true exactly when every
\* element with a rating above the threshold is loaded strictly below its rating
C19_LoadingStrict ==
    Summarised =>
        \A n \in Range(contingency_names) : \A f \in LoadingColumns :
           contingency_compliance[n].compliance[f] = RatedElementsBelowRating(f, n)

----------------------------------------------------------------------------
(* Properties of update() *)

\* a read call of the update() just made returned an error code
ReadFailed == \E call \in DOMAIN ierr : ierr[call] > 0

\* C21: whatever the data set, when a read call of update() returns an error
\* code greater than 0, update() raises the data retrieval error and no frame
\* has a column added or changed
C21_ReadErrorIsFatal ==
    [][ (pc = "update" /\ pc' # "update" /\ ReadFailed') =>
           /\ pc' = "aborted"
           /\ err' \in ReadErrors
           /\ UNCHANGED tableVars ]_vars

----------------------------------------------------------------------------
(* Properties of setup_contingency row by row *)

\* the contingency names only elements the case has
NamesCaseElements == \A i \in 1..Len(switching) : switching[i].key \in CaseKeys

\* setup_contingency(restore=True) has returned and the solver accepted every
\* switch command of it
RestoreAccepted == pc = "restored" /\ AllTrue(success)

\* C22: after a contingency was applied and then restored, by
\* setup_contingency(restore=True) or by loading the case again, every element
\* has the status of the base snapshot: the restore returns, and when the solver
\* accepted its switch commands the network is the one of the base case, as it
\* is after the case was loaded again
C22_RestoreReturnsBase ==
    /\ restore => pc # "aborted"
    /\ RestoreAccepted => net = BaseNet
    /\ pc = "reloaded" => net = BaseNet

\* a step of setup_contingency(restore=True), the call included
RestoreStep == restore' /\ (pc = "set_up" \/ pc = "setup")

\* setup_contingency(restore=True) is over, by return or by an exception
RestoreOver == restore /\ pc \in {"restored", "aborted"}

----------------------------------------------------------------------------
(* Properties of run_load_flow *)

\* the code the solve of the last run_load_flow call returned
LoadFlowCode == ierr["load_flow"]

\* C24: a call of run_load_flow that returns gives (True, no islanded buses)
\* for a solve that converged, (False, no islanded buses) for a solve that ran
\* and did not converge, or (False, the buses psspy.island disconnected) for the
\* codes 3 and 4; it never gives True together with islanded buses; for every
\* other positive code it raises and returns nothing
C24_LoadFlowResults ==
    [][ pc = "load_flow" =>
          /\ pc' = "returned" =>
                \/ convergent_load_flow' /\ islanded_buses' = {} /\ LoadFlowCode' = 0 /\ ierr'["solved"] = 0
                \/ ~convergent_load_flow' /\ islanded_buses' = {} /\ LoadFlowCode' = 0 /\ ierr'["solved"] # 0
                \/ /\ ~convergent_load_flow'
                   /\ LoadFlowCode' \in {3, 4}
                   /\ islanded_buses' = InService(net) \ InService(net')
          /\ ~(convergent_load_flow' /\ islanded_buses' # {})
          /\ (LoadFlowCode' > 0 /\ LoadFlowCode' \notin {3, 4}) =>
                (pc' = "aborted" /\ err' \in LoadFlowErrors) ]_vars

\* run_load_flow returned the islanded buses for code 4
C24_Witness ==
    /\ pc = "returned"
    /\ LoadFlowCode = 4
    /\ ~convergent_load_flow
    /\ islanded_buses # {}
    /\ \A b \in islanded_buses : net["bus"][b] = DisconnectedState

----------------------------------------------------------------------------
(* Properties of the islanded buses *)

\* the first locked-tap solve of test_contingency has reported islanded buses,
\* for a contingency of the workbook that was set up by switching
IslandsReported == pc = "test" /\ pc' = "locked_retry" /\ cur # bc

\* C25: when the first locked-tap solve reports islanded buses, the bus state
\* column of the contingency afterwards shows every islanded bus as out of
\* service and every other bus with the state it had after the switching
C25_IslandedColumn ==
    [][ IslandsReported =>
          \A b \in Buses :
              IF b \in islanded_buses'
              THEN df_state'[cur][b] = "out_of_service"
              ELSE df_state'[cur][b] = df_state[cur][b] ]_vars

----------------------------------------------------------------------------
(* Properties of the target bus *)

\* the voltage of the bus is outside its limits
OutsideLimits(b) ==
    ~(LeqLimit(bus_v[b], df_limits[b].upper_limit) /\ GeqLimit(bus_v[b], df_limits[b].lower_limit))

\* check_within_limits has returned to a search that targets a remote bus and
\* found a voltage above its limit
RemoteTargetChosen == pc = "search_loop" /\ test_target_bus /\ ~within_limits

\* C26: with test_target_bus the target bus of the search is, among the buses
\* that are not ignored, the one of the largest voltage outside its limits: no
\* ignored bus is chosen, and no bus inside its limits is chosen while another
\* bus that is not ignored is outside its limits
C26_TargetViolates ==
    RemoteTargetChosen =>
        /\ target_bus \in SubsetBuses(busbars_to_ignore)
        /\ (\E b \in SubsetBuses(busbars_to_ignore) : OutsideLimits(b)) =>
              /\ OutsideLimits(target_bus)
              /\ \A b \in SubsetBuses(busbars_to_ignore) : OutsideLimits(b) => bus_v[b] <= bus_v[target_bus]

----------------------------------------------------------------------------
(* Properties of the search in every targeting mode *)

\* the search is between its entry and its return
InSearch == pc \in {"search_loop", "search_flat", "search_resume", "search_done"}

\* a search iteration begins: targets, machines, counter and the first solve
IterationStep == pc = "search_loop" /\ LoopCondition /\ pc' # "aborted"

\* C27: in every search iteration the voltage target is the target last used
\* for the current target bus less v_step if the bus has history, else
\* vmax_target, and it is logged for the bus; the reactive dispatch goes down by
\* 5 Mvar in every iteration, in both modes and whatever its solves return
C27_TargetsStep ==
    /\ [][ IterationStep =>
              /\ target_voltage' = IF target_bus \in DOMAIN targets_log
                                    THEN targets_log[target_bus] - v_step
                                    ELSE vmax_target
              /\ targets_log'[target_bus] = target_voltage'
              /\ target_q' = target_q - 5 ]_vars
    /\ [](InSearch => target_q = 0 - 5 * iter_count)

\* three iterations, the first two for bus 1 and, after a solve that left the
\* largest voltage at bus 2, the third for bus 2, whose solves did not converge
C27_Witness ==
    /\ pc = "search_loop"
    /\ iter_count = 3
    /\ DOMAIN targets_log = {1, 2}
    /\ targets_log[1] = vmax_target - v_step
    /\ targets_log[2] = vmax_target
    /\ target_q = 0 - 15
    /\ phase_log = << "machines", "fnsl_free", "fdns_free" >>

\* the flat-start retry of a search iteration returns without convergence
\* (its warm solve had returned without convergence before it)
BothSolvesFail == pc = "search_flat" /\ lf_state' = "nonconv" /\ err' \notin SolverErrors

\* C28: when neither the warm solve nor the flat-start retry of a search
\* iteration converges, within_limits is False, the iteration has counted
\* (counter, reactive dispatch and target history are those of this iteration)
\* and the loop goes on to its condition; no exception is raised. A warm solve
\* that does not converge leads to the flat-start retry
C28_NonConvergentContinues ==
    /\ [][ BothSolvesFail =>
              /\ pc' = "search_loop"
              /\ err' = NoError
              /\ within_limits' = FALSE
              /\ iter_count' = iter_count /\ iter_count >= 1
              /\ target_q' = 0 - 5 * iter_count
              /\ targets_log' = targets_log
              /\ targets_log[target_bus] = target_voltage ]_vars
    /\ [][ (IterationStep /\ lf_state' = "nonconv") => (pc' = "search_flat" /\ err' = NoError) ]_vars

\* the second iteration of a search with shunts ended without convergence of
\* either solve and the loop is back at its condition
C28_Witness ==
    /\ pc = "search_loop"
    /\ target_shunts
    /\ iter_count = 2
    /\ lf_state = "nonconv"
    /\ ~within_limits
    /\ phase_log = << "machines", "fnsl_free", "fdns_free" >>

\* the calls of a search iteration whose warm solve converged, whose warm and
\* flat-start solves both failed, and whose flat-start solve converged
WarmConverged == << "machines", "fnsl_free", "check" >>
NoneConverged == << "machines", "fnsl_free", "fdns_free" >>
FlatConverged == << "machines", "fnsl_free", "fdns_free", "fnsl_free", "check" >>

\* C29: in a search iteration the machines are changed first, then one warm
\* free-tap solve runs; only if it fails, one flat-start solve; only if that
\* converges, one more warm solve; check_within_limits is called after these
\* solves, and only if the warm solve or the flat-start solve converged
C29_SolveOrder ==
    /\ (pc = "search_loop" /\ iter_count >= 1) =>
          /\ phase_log \in {WarmConverged, NoneConverged, FlatConverged}
          /\ phase_log = WarmConverged => lf_state = "conv"
          /\ phase_log = NoneConverged => lf_state = "nonconv"
    /\ pc = "search_flat" => (phase_log = << "machines", "fnsl_free" >> /\ lf_state = "nonconv")
    /\ pc = "search_resume" => (phase_log = NoneConverged /\ lf_state = "conv")

\* an iteration whose flat-start solve converged and whose resumed warm solve
\* did not: check_within_limits was called all the same
C29_Witness ==
    /\ pc = "search_loop"
    /\ phase_log = FlatConverged
    /\ lf_state = "nonconv"

\* the search has returned without an iteration
ZeroIterations == pc = "search_done" /\ iter_count = 0

\* C30: the search stops as soon as check_within_limits has returned True: from
\* the loop condition it returns without another iteration, and it returns for
\* no other reason than the flag or the bounds of the targets; when the flag is
\* True on entry there is no iteration, no target of a machine is changed and
\* the search runs no solve
C30_StopsWhenWithinLimits ==
    /\ [][ (pc = "search_loop" /\ within_limits) =>
              /\ pc' = "search_done"
              /\ UNCHANGED << solverVars, searchVars, phase_log >> ]_vars
    /\ [][ (pc = "decide" /\ pc' = "search_loop" /\ within_limits') =>
              /\ iter_count' = 0 /\ targets_log' = << >>
              /\ target_voltage' = vmax_target /\ target_q' = q_min
              /\ phase_log' = << >>
              /\ UNCHANGED solverVars ]_vars
    /\ [](pc = "search_done" =>
              (within_limits \/ target_voltage <= vmin_target \/ target_q <= q_max))
    /\ []((ZeroIterations /\ within_limits) =>
              (phase_log = << >> /\ targets_log = << >> /\ target_q = q_min))

\* the voltages were within limits on entry and the search returned at once
C30_Witness ==
    /\ ZeroIterations
    /\ within_limits
    /\ phase_log = << >>
    /\ target_voltage = vmax_target

----------------------------------------------------------------------------
(* Properties of the study loop, continued *)

\* the step-change solve of the current contingency failed and its
\* steady-state result is taken as convergent
StepOnlyFailed == InLoop /\ ~convergent_v_step /\ convergent_v_steady

\* C31: when the locked-tap solve of a contingency fails and its steady-state
\* result is recorded as convergent (a free-tap solve converged, or the search
\* is enabled), the message is 'Non-Convergent Step Change', the step-change
\* column holds np.nan in every row and the steady-state column holds the
\* voltages read from the solver
C31_StepOnlyNonConvergent ==
    /\ (pc = "reload" /\ StepOnlyFailed) =>
          /\ AllNaN(df_voltage_step)
          /\ df_voltage_steady[cur] = bus_v
          /\ AllNumeric(df_voltage_steady)
    /\ (Reported /\ StepOnlyFailed) =>
          /\ contingency_convergence[cur].message = "Non-Convergent Step Change"
          /\ ~contingency_convergence[cur].convergence
          /\ AllNaN(df_voltage_step)
          /\ AllNumeric(df_voltage_steady)

\* a contingency studied without the search, whose locked-tap solve failed and
\* whose free-tap solve converged, has been reported
C31_Witness ==
    /\ Reported
    /\ StepOnlyFailed
    /\ ~adjust_reactive
    /\ cur # bc
    /\ contingency_convergence[cur].message = non_convergent_vstep

\* the same with the search enabled, after free-tap solves that did not converge
C31_WitnessSearch ==
    /\ pc = "reload"
    /\ StepOnlyFailed
    /\ adjust_reactive
    /\ ~convergent_load_flow

----------------------------------------------------------------------------
(* Properties of change_state(restore_all=True) *)

\* the i-th command went to the element of the i-th row of the snapshot and
\* carried the status that row holds in the column STATUS
OwnCommand(i) ==
    LET row == RestoreRows(data_set)[i]
    IN  /\ commands[i].key = KeyOf(data_set, row.bus, row.id)
        /\ commands[i].status = RowStatus(data_set, row)

\* restore_all has returned
RestoredAll == pc = "restored_all"

\* C32: restore_all of ShuntData issues one switch command per shunt of the
\* snapshot, addressed to the bus number and ID of that shunt and carrying its
\* original status, as restore_all of the branches and of the three-winding
\* transformers does for their keys
C32_RestoreAllAddressesOwnKey ==
    /\ Len(commands) = sw
    /\ \A i \in 1..Len(commands) : OwnCommand(i)
    /\ RestoredAll => Len(commands) = Len(RestoreRows(data_set))

\* what holds: branches and three-winding transformers are addressed by their
\* own keys, and every kind gets one command per row carrying the original status
C32_BranchesAddressOwnKey ==
    /\ Len(commands) = sw
    /\ \A i \in 1..Len(commands) :
          /\ commands[i].status = RowStatus(data_set, RestoreRows(data_set)[i])
          /\ data_set \notin ShuntKinds => OwnCommand(i)
    /\ RestoredAll => Len(commands) = Len(RestoreRows(data_set))

\* what the shunts get instead: the bus number of every command is the status
C32_ShuntsAddressedByStatus ==
    \A i \in 1..Len(commands) :
        data_set \in ShuntKinds => commands[i].key.bus = << commands[i].status >>

----------------------------------------------------------------------------
(* Properties of check_voltage_adjust_machines, continued *)

\* check_voltage_adjust_machines has returned or has raised
SearchOver == pc \in {"search_done", "aborted"}

\* iterations the bound of the reactive dispatch allows: (q_min - q_max) / 5
MaxIterations == (q_min - q_max) \div (0 - q_step)

\* statements of the loop body still to run before the loop condition is
\* tested again, at most
StepsToCondition ==
    CASE pc = "search_flat"   -> 2
      [] pc = "search_resume" -> 1
      [] OTHER                -> 0

\* a bound on the steps the search can still take: three for every iteration
\* the reactive dispatch still allows, and the rest of the current one
SearchVariant == 3 * ((target_q - q_max) \div 5) + StepsToCondition

\* the search is inside its loop
Searching == pc \in {"search_loop", "search_flat", "search_resume"}

\* C33: the search loop terminates in both modes, whatever the solves return
\* and whichever buses are targeted: the reactive dispatch starts at 0, goes
\* down by 5 Mvar in every iteration, never passes -1000 Mvar, and at most 200
\* iterations run. Every step inside the loop ends the search or lowers a
\* bound that is never negative, and a step is always possible
C33_SearchTerminates ==
    /\ [](InSearch => /\ target_q = q_min + q_step * iter_count
                      /\ target_q >= q_max
                      /\ iter_count <= MaxIterations)
    /\ [](Searching => (SearchVariant >= 0 /\ ENABLED NextSearch))
    /\ [][IterationStep => (target_q > q_max /\ target_q' = target_q - 5 /\ iter_count' = iter_count + 1)]_vars
    /\ [][Searching => (SearchOver' \/ SearchVariant' < SearchVariant)]_vars

\* the same as a liveness property of the fair search
C33_EventuallyOver == <>SearchOver

\* a search with a remote target bus that ended after 200 iterations, at -1000 Mvar
C33_Witness ==
    /\ pc = "search_done"
    /\ iter_count = MaxIterations
    /\ target_q = q_max
    /\ target_voltage > vmin_target
    /\ ~within_limits

\* the value lies between the bounds
Between(lo, x, hi) == lo <= x /\ x <= hi

\* C34: the voltage target of every search iteration lies between vmin_target
\* and vmax_target and its reactive dispatch between q_max = -1000 and
\* q_min = 0 Mvar, whichever buses are targeted and whatever the solves return
\* (v_step being exactly a hundredth of vmax_target - vmin_target)
C34_TargetsWithinBounds ==
    /\ [][IterationStep => /\ Between(vmin_target, target_voltage', vmax_target)
                           /\ Between(q_max, target_q', q_min)]_vars
    /\ [](InSearch => /\ \A b \in DOMAIN targets_log : Between(vmin_target, targets_log[b], vmax_target)
                      /\ Between(vmin_target, target_voltage, vmax_target)
                      /\ Between(q_max, target_q, q_min))
    /\ [](100 * v_step = vmax_target - vmin_target)

\* a search with machine voltage targets whose last iteration, the 101st for
\* the local bus, applied exactly vmin_target
C34_Witness ==
    /\ pc = "search_done"
    /\ ~target_shunts
    /\ ~test_target_bus
    /\ iter_count = 101
    /\ target_voltage = vmin_target
    /\ targets_log[0] = vmin_target
    /\ ~within_limits

\* a search with reactive dispatch whose last iteration applied -505 Mvar
C34_WitnessShunts ==
    /\ pc = "search_done"
    /\ target_shunts
    /\ iter_count = 101
    /\ target_q = 0 - 505
    /\ ~within_limits

----------------------------------------------------------------------------
(* Properties of the voltage tables *)

\* test_contingency has returned for the i-th contingency of the loop
Tested(i) == i < idx \/ (i = idx /\ pc \in {"reload", "loop", "done"})

\* the table has a column of the name, np.nan in every row or a voltage in every row
HasColumn(df, name) ==
    /\ name \in DOMAIN df
    /\ \/ \A b \in Buses : df[name][b] = NaN
       \/ \A b \in Buses : df[name][b] # NaN

\* C35: once test_contingency has returned for a contingency (not set up,
\* non-convergent in either solve, or convergent), the step-change table and
\* the steady-state table each have a column of its name, holding np.nan or
\* voltages; when the loop is over no name of the loop lacks a column
C35_BothColumnsRecorded ==
    \A i \in 1..Len(contingency_names) :
        Tested(i) => /\ HasColumn(df_voltage_step, contingency_names[i])
                     /\ HasColumn(df_voltage_steady, contingency_names[i])

\* the loop is over; one contingency was not set up and another was solved
\* with convergence in both solves
C35_Witness ==
    /\ pc = "done"
    /\ \E i, j \in 1..Len(contingency_names) :
          /\ contingency_names[i] # bc
          /\ contingency_names[j] # bc
          /\ \A b \in Buses : df_voltage_step[contingency_names[i]][b] = NaN
          /\ \A b \in Buses : df_voltage_steady[contingency_names[i]][b] = NaN
          /\ contingency_convergence[contingency_names[j]].message = convergent
          /\ \A b \in Buses : df_voltage_step[contingency_names[j]][b] # NaN
          /\ \A b \in Buses : df_voltage_steady[contingency_names[j]][b] # NaN

----------------------------------------------------------------------------
(* Properties of the initial load flow *)

\* no snapshot table has been built for the network case
NoSnapshot ==
    /\ df_voltage_step = << >>
    /\ df_voltage_steady = << >>
    /\ df_state = << >>
    /\ \A t \in StatusTables : df_status[t] = << >>
    /\ \A t \in LoadingTables : df_loading[t] = << >>

\* the network case was ended by the check of the initial load flow
BaseCaseRejected == pc = "aborted" /\ err \in {IslandedBaseCase, NonConvergentBaseCase}

\* C36: the snapshot tables are built and contingencies are set up and tested
\* only after the initial load flow of the case has converged and has reported
\* no islanded busbars; otherwise the network case ends with an error before a
\* snapshot is taken or a contingency is processed
C36_BaseCaseFirst ==
    /\ [][pc = "init_lf" =>
             IF lf_state' = "conv"
             THEN pc' = "create_data" /\ err' = NoError
             ELSE pc' = "aborted" /\ err' # NoError /\ idx' = 0 /\ UNCHANGED tableVars]_vars
    /\ [][(NoSnapshot /\ ~NoSnapshot') => (pc = "create_data" /\ lf_state = "conv")]_vars
    /\ [](pc \in {"start", "init_lf"} => (idx = 0 /\ NoSnapshot))
    /\ [](pc = "create_data" => (lf_state = "conv" /\ idx = 0))
    /\ [](BaseCaseRejected => (idx = 0 /\ NoSnapshot /\ lf_state = "nonconv"))
    /\ [](InLoop => ~NoSnapshot)

\* the initial load flow reported islanded busbars and the case was ended
C36_Witness ==
    /\ pc = "aborted"
    /\ err = IslandedBaseCase
    /\ idx = 0
    /\ NoSnapshot

\* the initial load flow did not converge and the case was ended
C36_WitnessNonConvergent ==
    /\ pc = "aborted"
    /\ err = NonConvergentBaseCase
    /\ idx = 0
    /\ NoSnapshot

----------------------------------------------------------------------------
(* Properties of a repeated check_compliance *)

\* the result of the repeated call and the result main() got for the same frame
AgainResult == compliance[Len(compliance)]
FirstResult == compliance[CHOOSE i \in 1..(Len(compliance) - 1) : compliance[i].column = AgainResult.column]

CheckedAgain == pc = "checked_again"

\* C37: check_compliance called again with the same names on the same frame
\* returns for every name the boolean it returned before, for the steady
\* state, the voltage step and the loading checks
C37_CheckComplianceRepeatable ==
    CheckedAgain =>
        \A n \in DOMAIN AgainResult.cells : AgainResult.cells[n] = FirstResult.cells[n]

\* what holds: the repeated call returns False for every name, whatever the
\* first call returned
C37_RepeatedCallAllFalse ==
    CheckedAgain =>
        \A n \in DOMAIN AgainResult.cells : AgainResult.cells[n] = FALSE

----------------------------------------------------------------------------
(* Properties of the steady-state voltages read from the solver *)

\* a step of the study loop reads the voltages of the solver into the
\* steady-state column of the current contingency (update_voltages without
\* non_convergence, called by test_contingency or by check_within_limits)
ReadsSteadyVoltages ==
    /\ InLoop
    /\ pc \in {"decide", "search_loop", "search_flat", "search_resume", "search_done", "free", "flat", "warm"}
    /\ pc' # "aborted"
    /\ cur \in DOMAIN df_voltage_steady'
    /\ df_voltage_steady'[cur] = bus_v'
    /\ \/ cur \notin DOMAIN df_voltage_steady
       \/ df_voltage_steady' # df_voltage_steady
       \/ pc \in {"decide", "search_done"}

\* C38: the steady-state voltages are read from the solver, by the search for
\* its check against the limits or by test_contingency for the recorded
\* column, only when the last load-flow solve converged
C38_ReadOnlyAfterConvergence ==
    [][ReadsSteadyVoltages => lf_state' = "conv"]_vars

\* what holds: without the search the voltages are read only after a converged solve
C38_ReadOnlyAfterConvergenceNoSearch ==
    [][(ReadsSteadyVoltages /\ ~adjust_reactive) => lf_state' = "conv"]_vars

----------------------------------------------------------------------------
(* Properties of the free-tap solves *)

\* positions of test_contingency and of the search at a free-tap call
FreeTapPositions == {"free", "flat", "warm", "search_loop", "search_flat", "search_resume"}

\* where the caller goes after a free-tap call that returned without convergence
AfterNonConvergence(position) ==
    CASE position = "free"          -> "flat"
      [] position = "flat"          -> "decide"
      [] position = "warm"          -> "decide"
      [] position = "search_loop"   -> "search_flat"
      [] position = "search_flat"   -> "search_loop"
      [] position = "search_resume" -> "search_loop"

\* a free-tap call returns a frame of islanded buses
IslandsReturned ==
    /\ pc \in FreeTapPositions
    /\ net' # net
    /\ islanded_buses' # {}

\* C39: when a free-tap solve returns islanded buses no exception is raised and
\* the bus states of the snapshot are not written; the call counts as
\* non-convergent and the caller goes on to its next solve, its decision or
\* the next test of the loop condition
C39_FreeTapIslandsIgnored ==
    [][IslandsReturned =>
          /\ err' = NoError
          /\ df_state' = df_state
          /\ lf_state' = "nonconv"
          /\ pc' = AfterNonConvergence(pc)
          /\ (pc \in {"free", "flat", "warm"} => ~convergent_load_flow')]_vars

\* the first free-tap solve of a contingency returned islanded buses and the
\* flat-start retry is next
C39_Witness ==
    /\ pc = "flat"
    /\ islanded_buses # {}
    /\ ~convergent_load_flow
    /\ err = NoError
    /\ df_state[cur] # net["bus"]

\* the flat-start retry of a search iteration returned islanded buses and the
\* loop is back at its condition
C39_WitnessSearch ==
    /\ pc = "search_loop"
    /\ iter_count = 1
    /\ islanded_buses # {}
    /\ lf_state = "nonconv"
    /\ err = NoError

----------------------------------------------------------------------------
(* Properties of a set-up with rejected switch commands *)

\* setup_contingency(restore=False) has returned for a contingency of the workbook
SetUpReturned == pc \in {"set_up", "test_solving", "test_skipped"} /\ ~restore /\ cur # bc

\* no later row of the contingency names the element of row i with acceptance
LastAccepted(i) ==
    /\ success[i]
    /\ \A j \in (i + 1)..Len(switching) :
          (switching[j].kind = switching[i].kind /\ switching[j].key = switching[i].key) => ~success[j]

\* C40: setup_contingency sends the switch command of every row of the
\* contingency, also after the solver has rejected an earlier one, and the
\* status tables take the column of the contingency whether or not a command
\* was rejected; test_contingency then solves a contingency only if every
\* command was accepted, and writes np.nan voltage columns otherwise
C40_SetupAttemptsEveryRow ==
    /\ SetUpReturned =>
          /\ Len(success) = Len(switching)
          /\ \A i \in 1..Len(switching) :
                LastAccepted(i) => net[switching[i].kind][switching[i].key] = switching[i].status
          /\ setup_correctly = AllTrue(success)
          /\ \A kind \in Range(SwitchKinds) :
                cur \in DOMAIN df_status[kind] /\ df_status[kind][cur] = net[kind]
          /\ \A t \in SetupLoadingTables :
                cur \in DOMAIN df_loading[t] /\ df_loading[t][cur] = lf_state
    /\ (pc = "test_skipped" /\ cur # bc) =>
          /\ ~AllTrue(success)
          /\ phase_log = << >>
          /\ \A b \in Buses : df_voltage_step[cur][b] = NaN /\ df_voltage_steady[cur][b] = NaN
    /\ (pc = "test_solving" /\ cur # bc) => (AllTrue(success) /\ phase_log = << "locked" >>)

\* the first switch command of a contingency was rejected, a later one was
\* accepted and changed the network; the tables hold the column and the
\* contingency was not solved
C40_Witness ==
    /\ pc = "test_skipped"
    /\ cur # bc
    /\ Len(switching) >= 2
    /\ ~success[1]
    /\ success[Len(switching)]
    /\ net # BaseNet
    /\ df_status["circuit"][cur] = net["circuit"]
    /\ phase_log = << >>

====
